---- MODULE Spec2Model ----
(***************************************************************************)
(* Honeycomb cluster lifecycle of the bee canvas simulation (Bees.tsx):    *)
(* the hex grid (Honeycomb cells), the pooled HoneycombCluster objects and *)
(* the part of Hive that spawns, advances and reuses them.                 *)
(*                                                                         *)
(* Time is counted in frames.  The cluster timing fields are hard-wired    *)
(* frame counts in the source (fadeIn 60, fadeOut 180, delay 30, base      *)
(* visible time 600); the model keeps their 2 : 6 : 1 : 20 proportion and  *)
(* divides them by 30 so that a whole lifecycle fits in a few dozen ticks. *)
(* Opacity is a fraction in the source; here it is kept exactly as an      *)
(* integer number of 1/(fadeInTime*fadeOutTime) units.                     *)
(* Math.random() is an input: every handler run draws one value u (in      *)
(* hundredths) from RandomU and every draw of that handler returns u.      *)
(***************************************************************************)
EXTENDS Integers, Sequences, FiniteSets, TLC

VARIABLES
  cells,                  \* Hive.honeyCombGrid: axial <<q, r>> -> Honeycomb fields
  honeyCombClusters,      \* Hive.honeyCombClusters: the cluster pool, in array order
  frameCounter,           \* Hive.frameCounter
  lastClusterSpawnFrame,  \* Hive.lastClusterSpawnFrame: <<>> is -Infinity, else <<frame>>
  pc,                     \* position inside Hive.draw: "idle" between frames, "update" after the spawn step
  ringAtActivation,       \* history: per pool entry, ringDistance + borderRing of its cells when it was last activated
  released,               \* history: per pool entry, the cells of its set seen reset since it was last activated
  capComputed,            \* history: the cap the last tick's #spawnOneClusterIfAllowed computed
  timing,                 \* one run of the timing derivation of resetCluster / #initialiser on its own
  capRun,                 \* one run of #getClusterCap on its own, for a configuration of its own
  bee,                    \* one bee of Hive.bees, followed through the frames
  beePc,                  \* position inside Hive.draw for that bee: "idle" between frames, "passes" after Bee.draw and the footprints
  printed,                \* history: whether the last #addFootprintsForBees appended a footprint for the bee
  call,                   \* one call of Bee.enterState on its own
  trailBees,              \* Hive.bees as #addFootprintsForBees sees them, in array order
  trails,                 \* Hive.trails: the footprints, oldest first
  prox,                   \* one proximity pass of Hive.draw over a few placed bees
  lookup,                 \* one run of the nearest-cell lookup on its own
  bees,                   \* Hive.bees, in array order, where clicks and resizes are followed
  click,                  \* history: the last Hive.handleClick, its point and what it found
  holeRun,                \* one run of #fillHoles on its own
  canvas,                 \* Hive.canvasWidth and canvasHeight where resizes are followed
  countRun,               \* one run of the bee count of #initialiser on its own
  loop,                   \* the frame loop of startAnimation: lastTime, timer and what the last callback did
  dwell,                  \* history: the lock last set on the followed bee and the ticks since
  mount,                  \* the Bees component: its state flags and its idle timer
  rain,                   \* DigitalRain: one Column, its symbols and what its last draw was given
  typeRun,                \* one run of the build of a cluster around a grown region, on its own
  gridRun                 \* the grids that Hive.resize made and the grid of every pool cluster

\* the cluster side of Hive
hiveVars == <<cells, honeyCombClusters, frameCounter, lastClusterSpawnFrame, pc,
              ringAtActivation, released, capComputed>>

\* the runs of single derivations
runVars == <<timing, capRun>>

\* the bee side of Hive
beeVars == <<bee, beePc, printed, call>>

\* several bees at once
swarmVars == <<trailBees, trails, prox>>

\* the page around the hive and the runs that came later
pageVars == <<lookup, bees, click, holeRun, canvas, countRun, loop, dwell, mount, rain,
             typeRun, gridRun>>

vars == <<hiveVars, runVars, beeVars, swarmVars, pageVars>>

-----------------------------------------------------------------------------
(* Bounds of the model *)

GridCols == 4             \* floor(canvasWidth / (1.5 * honeyCombSize))
GridK == 6                \* floor(2 * canvasHeight / hexHeight) + 2
GrowSize == 2             \* target size of #growCluster (120 in the source)
fadeInTime == 2           \* HoneycombCluster.fadeInTime   (60 frames in the source)
fadeOutTime == 6          \* HoneycombCluster.fadeOutTime  (180)
delayTime == 1            \* HoneycombCluster.delayTime    (30)
baseVisibleTime == 20     \* visibleTime default of resetCluster (600)
fps == 1                  \* Hive.fps (prop)
targetHoneycombCoveragePct == 100  \* Hive.targetHoneycombCoverage (prop), in percent
clusterRampStartSec == 2  \* Hive.clusterRampStartSec (prop)
clusterRampStepSec == 32  \* Hive.clusterRampStepSec (prop)
MaxFrame == 52            \* frames observed
MaxRing == 26             \* largest maximumDistanceAndBorder tried by the timing derivation
MaxCapFrame == 14         \* frames tried by the cap derivation
MaxCapClusters == 2       \* active clusters tried by the cap derivation

RandomU == {0, 40, 95}                        \* values of Math.random(), in hundredths
ClickCells == {<<1, 0>>, <<2, 1>>}        \* nearest cells of the click points tried

-----------------------------------------------------------------------------
(* Program constants *)

SAFETY_CAP == 12
DEFAULT_AVG_CELLS == 180

-----------------------------------------------------------------------------
(* The grid *)

\* rows of #initialiseGrid: Math.ceil(canvasHeight / hexHeight) + 10
rows == ((GridK - 2) \div 2) + 1 + 10

\* The cells #initialiseGrid creates: x + hexWidth >= 0, x <= canvasWidth,
\* 0 <= y, y - hexHeight <= canvasHeight, with x = 1.5*s*r, y = hexHeight*(q + r/2).
Cells ==
  {c \in ((0 - rows)..(rows - 1)) \X ((0 - 1)..GridCols) :
      /\ 2 * c[1] + c[2] >= 0
      /\ 2 * c[1] + c[2] <= GridK}

OpacityOne == fadeInTime * fadeOutTime

\* new Honeycomb(q, r, x, y, size): the constructor defaults
Honeycomb ==
  [active |-> FALSE, opacity |-> OpacityOne, border |-> 0, edge |-> 0,
   type |-> "empty", distanceFromCentrePiece |-> 0]

\* Honeycomb.resetCell
resetCell(cell) ==
  [cell EXCEPT !.border = 0, !.edge = 0, !.type = "empty",
               !.distanceFromCentrePiece = 0, !.active = FALSE]

axialDirections ==
  << <<0, -1>>, <<1, -1>>, <<1, 0>>, <<0, 1>>, <<-1, 1>>, <<-1, 0>> >>

\* HoneycombCluster.#getNeighbours: the neighbours that exist in the grid, in direction order
\* (tabulated once per cell: the grid's key set never changes)
NeighbourTable ==
  [c \in Cells |->
     SelectSeq([i \in 1..6 |-> <<c[1] + axialDirections[i][1], c[2] + axialDirections[i][2]>>],
               LAMBDA n : n \in Cells)]

getNeighbours(c) == NeighbourTable[c]

NeighbourSetTable == [c \in Cells |-> {NeighbourTable[c][i] : i \in 1..Len(NeighbourTable[c])}]

NeighbourSet(c) == NeighbourSetTable[c]

Abs(x) == IF x < 0 THEN 0 - x ELSE x
Min(a, b) == IF a < b THEN a ELSE b
Max(a, b) == IF a > b THEN a ELSE b
SetMin(S) == CHOOSE x \in S : \A y \in S : x <= y
SetMax(S) == CHOOSE x \in S : \A y \in S : x >= y

\* HoneycombCluster.#axialDistance
axialDistance(centre, cell) ==
  (Abs(centre[1] - cell[1])
     + Abs(centre[1] + centre[2] - cell[1] - cell[2])
     + Abs(centre[2] - cell[2])) \div 2

-----------------------------------------------------------------------------
(* HoneycombCluster: growth of a region *)

\* Math.max(0.3, 1 - distFromCenter * 0.1), in hundredths
inclusionChance(center, n) == Max(30, 100 - 10 * axialDistance(center, n))

\* #growCluster without the `if (n.active) return` guard on neighbours
RECURSIVE growLoopOverActive(_, _, _, _, _)
growLoopOverActive(queue, visited, center, grid, u) ==
  IF queue = <<>> \/ Cardinality(visited) >= GrowSize THEN visited
  ELSE LET current == Head(queue)
           rest == Tail(queue)
       IN IF current \in visited THEN growLoopOverActive(rest, visited, center, grid, u)
          ELSE LET seen == visited \cup {current}
                   pushed == SelectSeq(getNeighbours(current),
                               LAMBDA n : /\ n \notin seen
                                          /\ u < inclusionChance(center, n))
               IN growLoopOverActive(rest \o pushed, seen, center, grid, u)

\* the while loop of #growCluster; visited and result hold the same cells
RECURSIVE growLoop(_, _, _, _, _)
growLoop(queue, visited, center, grid, u) ==
  IF queue = <<>> \/ Cardinality(visited) >= GrowSize THEN visited
  ELSE LET current == Head(queue)
           rest == Tail(queue)
       IN IF current \in visited THEN growLoop(rest, visited, center, grid, u)
          ELSE LET seen == visited \cup {current}
                   pushed == SelectSeq(getNeighbours(current),
                               LAMBDA n : /\ ~grid[n].active
                                          /\ n \notin seen
                                          /\ u < inclusionChance(center, n))
               IN growLoop(rest \o pushed, seen, center, grid, u)

\* cells of `set` become active with opacity 0
Activate(grid, set) ==
  [c \in Cells |-> IF c \in set THEN [grid[c] EXCEPT !.active = TRUE, !.opacity = 0]
                   ELSE grid[c]]

\* HoneycombCluster.#growCluster: returns the grid and the cluster map
growCluster(center, grid, u) ==
  [grid |-> Activate(grid, growLoop(<<center>>, {}, center, grid, u)),
   cluster |-> growLoop(<<center>>, {}, center, grid, u)]

\* the flood fill that stops at the perimeter
floodFillPerimeterOnly(safeSet, inactiveSet) == safeSet

\* the BFS flood fill of #fillHoles over the inactive cells of the box
RECURSIVE floodFill(_, _)
floodFill(safeSet, inactiveSet) ==
  LET next == {n \in inactiveSet \ safeSet : \E s \in safeSet : n \in NeighbourSet(s)}
  IN IF next = {} THEN safeSet ELSE floodFill(safeSet \cup next, inactiveSet)

\* HoneycombCluster.#fillHoles; g is the grid and the cluster map so far
fillHoles(g) ==
  LET minQ == SetMin({c[1] : c \in g.cluster}) - 1
      maxQ == SetMax({c[1] : c \in g.cluster}) + 1
      minR == SetMin({c[2] : c \in g.cluster}) - 1
      maxR == SetMax({c[2] : c \in g.cluster}) + 1
      inactiveSet == {c \in Cells : /\ c[1] >= minQ /\ c[1] <= maxQ
                                    /\ c[2] >= minR /\ c[2] <= maxR
                                    /\ ~g.grid[c].active}
      perimeter == {c \in inactiveSet : c[1] \in {minQ, maxQ} \/ c[2] \in {minR, maxR}}
      holes == inactiveSet \ floodFill(perimeter, inactiveSet)
  IN [grid |-> Activate(g.grid, holes), cluster |-> g.cluster \cup holes]

\* HoneycombCluster.#addOutline
addOutline(g, border) ==
  LET minQ == SetMin({c[1] : c \in g.cluster}) - 2
      maxQ == SetMax({c[1] : c \in g.cluster}) + 2
      minR == SetMin({c[2] : c \in g.cluster}) - 2
      maxR == SetMax({c[2] : c \in g.cluster}) + 2
      toAdd == {c \in Cells : /\ c[1] >= minQ /\ c[1] <= maxQ
                              /\ c[2] >= minR /\ c[2] <= maxR
                              /\ ~g.grid[c].active
                              /\ \E n \in NeighbourSet(c) : g.grid[n].active}
  IN [grid |-> [c \in Cells |->
                  IF c \in toAdd
                  THEN [g.grid[c] EXCEPT !.active = TRUE, !.opacity = 0, !.border = border]
                  ELSE g.grid[c]],
      cluster |-> g.cluster \cup toAdd]

\* HoneycombCluster.#setEdgeCells
setEdgeCells(g, edge) ==
  [grid |->
     [c \in Cells |->
        IF c \notin g.cluster \/ g.grid[c].border > 0 \/ (edge > 1 /\ g.grid[c].edge >= 1)
        THEN g.grid[c]
        ELSE IF \E n \in NeighbourSet(c) :
                  IF edge > 1 THEN g.grid[n].edge + 1 = edge
                  ELSE ~g.grid[n].active \/ g.grid[n].border > 0
             THEN [g.grid[c] EXCEPT !.edge = edge]
             ELSE g.grid[c]],
   cluster |-> g.cluster]

\* the cell part of HoneycombCluster.#setDistanceValue
setDistanceValue(centre, g) ==
  [grid |->
     [c \in Cells |->
        IF c \in g.cluster
        THEN [g.grid[c] EXCEPT !.distanceFromCentrePiece = axialDistance(centre, c)]
        ELSE g.grid[c]],
   cluster |-> g.cluster]

\* HoneycombCluster.#generateVisibleTime
generateVisibleTime(maximumDistanceAndBorder, visibleTime) ==
  LET maxDelay == delayTime * maximumDistanceAndBorder
      timeToLoad == fadeInTime + fadeOutTime + maxDelay
  IN visibleTime + timeToLoad

\* #getMaximumLifeTime leaving the fade-out out of the lifetime
getMaximumLifeTimeWithoutFadeOut(visibleTime) == visibleTime + fadeInTime

\* HoneycombCluster.#getMaximumLifeTime
getMaximumLifeTime(visibleTime) == visibleTime + fadeInTime + fadeOutTime

\* HoneycombCluster.#randomWithin20Percent, Math.random() = u / 100
randomWithin20Percent(value, u) ==
  LET low == Max(1, (value * 8) \div 10)
      high == (value * 12 + 9) \div 10
  IN (u * (high - low) + 100 * low) \div 100

\* the content types with honey drawn up to edge depth 3
cellTypeForHoneyToDepthThree(cell, u) ==
  IF cell.edge >= 1 /\ cell.edge < 4
  THEN IF u > 80 THEN "empty" ELSE IF u > 60 THEN "honey filled" ELSE "honey capped"
  ELSE IF u > 90 THEN "brood hatching"
       ELSE IF u > 80 THEN "empty"
       ELSE IF u > 70 THEN "brood cell" ELSE "brood cell capped"

\* the content type #setCellType draws for one cell, rand = u / 100
cellTypeFor(cell, u) ==
  IF cell.edge >= 1 /\ cell.edge < 3
  THEN IF u > 80 THEN "empty" ELSE IF u > 60 THEN "honey filled" ELSE "honey capped"
  ELSE IF cell.edge >= 3 /\ cell.edge < 4
  THEN IF u > 80 THEN "empty" ELSE "pollen"
  ELSE IF u > 90 THEN "brood hatching"
       ELSE IF u > 80 THEN "empty"
       ELSE IF u > 70 THEN "brood cell" ELSE "brood cell capped"

\* HoneycombCluster.#setCellType
setCellType(g, centerCell, u) ==
  [c \in Cells |->
     IF c = centerCell THEN [g.grid[c] EXCEPT !.type = "brood cell capped"]
     ELSE IF c \in g.cluster /\ g.grid[c].border = 0
     THEN [g.grid[c] EXCEPT !.type = cellTypeFor(g.grid[c], u)]
     ELSE g.grid[c]]

-----------------------------------------------------------------------------
(* HoneycombCluster: the object *)

\* position of each cell in Array.from(grid.values()): #initialiseGrid fills the map
\* q-major, r-minor
GridOrder ==
  [c \in Cells |-> Cardinality({d \in Cells : d[1] < c[1] \/ (d[1] = c[1] /\ d[2] < c[2])})]

GridSize == Cardinality(Cells)

\* HoneycombMap.getRandom, Math.random() = u / 100
getRandom(u) ==
  LET index == (u * GridSize) \div 100
  IN CHOOSE c \in Cells : GridOrder[c] = index

\* new HoneycombCluster(grid.getRandom(), grid, false, fps * 20, fps * 15)
HoneycombCluster(u) ==
  [centreCell |-> getRandom(u),
   cluster |-> {},
   maximumDistance |-> 0,
   maximumDistanceAndBorder |-> 0,
   visibleTime |-> randomWithin20Percent(fps * 20, u),
   maximumLifeTime |-> 0,
   animationFrameCounter |-> 0,
   active |-> FALSE,
   userSpawned |-> FALSE,
   cooldownFrames |-> fps * 15,
   cooldownCounter |-> 0]

\* the maxima HoneycombCluster.#setDistanceValue accumulates into the cluster's fields
maximumDistanceAfter(old, grid, cluster) ==
  SetMax({old} \cup {grid[c].distanceFromCentrePiece : c \in cluster})

maximumDistanceAndBorderAfter(old, grid, cluster) ==
  SetMax({old} \cup {grid[c].distanceFromCentrePiece + grid[c].border : c \in cluster})

\* the region #initialiser builds around the centre cell: grow, fill holes, two
\* outline rings, four edge passes, ring distances
buildAround(centreCell, grown) ==
  setDistanceValue(centreCell,
    setEdgeCells(setEdgeCells(setEdgeCells(setEdgeCells(
      addOutline(addOutline(fillHoles(grown), 1), 2),
      1), 2), 3), 4))

buildCluster(centreCell, grid, u) ==
  buildAround(centreCell, growCluster(centreCell, grid, u))

\* the rest of #initialiser, once the region g is built: frame counter, maxima,
\* visible time, lifetime and cell types
finishInitialiser(cl, g, u) ==
  LET maxDB == maximumDistanceAndBorderAfter(cl.maximumDistanceAndBorder, g.grid, g.cluster)
  IN [grid |-> setCellType(g, cl.centreCell, u),
      cl |-> [cl EXCEPT !.animationFrameCounter = 0,
                        !.cluster = g.cluster,
                        !.maximumDistance =
                           maximumDistanceAfter(cl.maximumDistance, g.grid, g.cluster),
                        !.maximumDistanceAndBorder = maxDB,
                        !.visibleTime = generateVisibleTime(maxDB, cl.visibleTime),
                        !.maximumLifeTime =
                           getMaximumLifeTime(generateVisibleTime(maxDB, cl.visibleTime))]]

\* HoneycombCluster.#initialiser
initialiser(cl, grid, u) ==
  finishInitialiser(cl, buildCluster(cl.centreCell, grid, u), u)

\* HoneycombCluster.resetCluster(centreCell, {userSpawned})
resetCluster(cl, centreCell, userSpawned, grid, u) ==
  initialiser([cl EXCEPT !.visibleTime = randomWithin20Percent(baseVisibleTime, u),
                         !.centreCell = centreCell,
                         !.active = TRUE,
                         !.userSpawned = userSpawned],
              grid, u)

\* the body of the forEach in HoneycombCluster.updateCellLifecycle, for one cell
lifecycleCell(cl, cell, frame) ==
  LET delay == delayTime * (cell.distanceFromCentrePiece + cell.border)
      visibleTime == cl.visibleTime - delay * 2
      currentRelativeFrame == frame - delay
      fading == OpacityOne - (currentRelativeFrame - (fadeInTime + visibleTime)) * fadeInTime
  IN IF currentRelativeFrame < 0 THEN [cell EXCEPT !.opacity = 0]
     ELSE IF currentRelativeFrame <= fadeInTime
     THEN [cell EXCEPT !.opacity = currentRelativeFrame * fadeOutTime]
     ELSE IF currentRelativeFrame > fadeInTime + visibleTime
     THEN IF fading <= 0 THEN resetCell([cell EXCEPT !.opacity = 0])
          ELSE [cell EXCEPT !.opacity = fading]
     ELSE cell

\* HoneycombCluster.updateCellLifecycle
updateCellLifecycle(cl, grid) ==
  IF ~cl.active THEN [grid |-> grid, cl |-> cl]
  ELSE LET frame == cl.animationFrameCounter + 1
           grid2 == [c \in Cells |-> IF c \in cl.cluster
                                     THEN lifecycleCell(cl, grid[c], frame)
                                     ELSE grid[c]]
       IN [grid |-> grid2,
           cl |-> IF frame > cl.maximumLifeTime
                  THEN [cl EXCEPT !.active = FALSE,
                                  !.animationFrameCounter = 0,
                                  !.cooldownCounter = cl.cooldownFrames,
                                  !.userSpawned = FALSE]
                  ELSE [cl EXCEPT !.animationFrameCounter = frame]]

\* HoneycombCluster.tickCooldown
tickCooldown(cl) ==
  IF cl.cooldownCounter > 0 THEN [cl EXCEPT !.cooldownCounter = cl.cooldownCounter - 1]
  ELSE cl

-----------------------------------------------------------------------------
(* Hive: cap, pool and spawning *)

RECURSIVE SumSizes(_, _)
SumSizes(pool, i) ==
  IF i = 0 THEN 0
  ELSE SumSizes(pool, i - 1)
         + (IF pool[i].active THEN Cardinality(pool[i].cluster) ELSE 0)

\* Hive.#getActiveClusterCount
getActiveClusterCount(pool) == Cardinality({i \in 1..Len(pool) : pool[i].active})

\* the coverage-based cap of #getClusterCap: count active clusters hold sum cells;
\* floor(gridCells * coverage / max(1, avgClusterCells)), the division kept exact
coverageCap(gridSize, count, sum, coveragePct) ==
  LET gridCells == IF gridSize = 0 THEN 1 ELSE gridSize
      quotient == IF count = 0
                  THEN (gridCells * coveragePct) \div (100 * DEFAULT_AVG_CELLS)
                  ELSE IF sum <= count
                  THEN (gridCells * coveragePct) \div 100
                  ELSE (gridCells * coveragePct * count) \div (100 * sum)
  IN Min(Max(1, quotient), SAFETY_CAP)

\* the time ramp of #getClusterCap, seconds = frame / fps
timeCap(frame, framesPerSec, rampStartSec, rampStepSec) ==
  IF frame >= rampStartSec * framesPerSec
  THEN 1 + ((frame - rampStartSec * framesPerSec) \div (rampStepSec * framesPerSec))
  ELSE 0

\* Hive.#getClusterCap for a configuration given in full
clusterCap(gridSize, count, sum, coveragePct, frame, framesPerSec, rampStartSec, rampStepSec) ==
  Max(0, Min(coverageCap(gridSize, count, sum, coveragePct),
             timeCap(frame, framesPerSec, rampStartSec, rampStepSec)))

\* what #getClusterCap returns, <<n>> for the number n and <<>> for NaN: with a
\* ramp step of 0 the quotient of the time ramp is 0 / 0 = NaN at the second
\* the ramp starts, which Math.min and Math.max hand on, and Infinity after it
capReturned(gridSize, count, sum, coveragePct, frame, framesPerSec, rampStartSec, rampStepSec) ==
  IF rampStepSec = 0 /\ frame >= rampStartSec * framesPerSec
    THEN IF frame = rampStartSec * framesPerSec
           THEN <<>>
           ELSE <<Max(0, coverageCap(gridSize, count, sum, coveragePct))>>
    ELSE <<clusterCap(gridSize, count, sum, coveragePct, frame, framesPerSec,
                      rampStartSec, rampStepSec)>>

\* Hive.#getClusterCap
getClusterCap(pool, frame) ==
  clusterCap(GridSize, getActiveClusterCount(pool), SumSizes(pool, Len(pool)),
             targetHoneycombCoveragePct, frame, fps, clusterRampStartSec, clusterRampStepSec)

\* Hive.#ensureClusterPool
RECURSIVE ensureClusterPool(_, _, _)
ensureClusterPool(pool, size, u) ==
  IF Len(pool) >= size THEN pool
  ELSE ensureClusterPool(Append(pool, HoneycombCluster(u)), size, u)

\* Hive.#getInactiveCluster: index of the first inactive pool entry, 0 when there is none
getInactiveCluster(pool) ==
  IF \E i \in 1..Len(pool) : ~pool[i].active
  THEN SetMin({i \in 1..Len(pool) : ~pool[i].active})
  ELSE 0

\* frameCounter - lastClusterSpawnFrame < minIntervalFrames
spawnedWithin(frame, last, minIntervalFrames) ==
  last # <<>> /\ frame - last[1] < minIntervalFrames

\* Hive.#spawnOneClusterIfAllowed
spawnOneClusterIfAllowed(pool, grid, frame, last, u) ==
  LET cap == getClusterCap(pool, frame)
      unchanged == [pool |-> pool, grid |-> grid, last |-> last]
  IN IF getActiveClusterCount(pool) >= cap THEN unchanged
     ELSE IF spawnedWithin(frame, last, fps * 5) THEN unchanged
     ELSE LET pool2 == ensureClusterPool(pool, cap, u)
              inactive == getInactiveCluster(pool2)
              cell == getRandom(u)
          IN IF inactive # 0 /\ pool2[inactive].cooldownCounter <= 0 /\ ~grid[cell].active
             THEN LET r == resetCluster(pool2[inactive], cell, FALSE, grid, u)
                  IN [pool |-> [pool2 EXCEPT ![inactive] = r.cl],
                      grid |-> r.grid, last |-> <<frame>>]
             ELSE [pool |-> pool2, grid |-> grid, last |-> last]

\* the cluster part of the click without the test that the cell is inactive
clickSpawnAnyCell(pool, grid, frame, last, cell, u) ==
  LET remaining == Max(0, getClusterCap(pool, frame) - getActiveClusterCount(pool))
      pool2 == ensureClusterPool(pool, getClusterCap(pool, frame), u)
  IN IF remaining > 0 /\ getInactiveCluster(pool2) # 0
     THEN [pool |-> [pool2 EXCEPT ![getInactiveCluster(pool2)] =
                       resetCluster(pool2[getInactiveCluster(pool2)], cell, TRUE, grid, u).cl],
           grid |-> resetCluster(pool2[getInactiveCluster(pool2)], cell, TRUE, grid, u).grid,
           last |-> <<frame>>]
     ELSE [pool |-> pool, grid |-> grid, last |-> last]

\* the cluster part of Hive.handleClick; cell is the nearest grid cell to the click point
clickSpawn(pool, grid, frame, last, cell, u) ==
  LET remaining == Max(0, getClusterCap(pool, frame) - getActiveClusterCount(pool))
      unchanged == [pool |-> pool, grid |-> grid, last |-> last]
  IN IF remaining > 0 /\ ~grid[cell].active
     THEN LET pool2 == ensureClusterPool(pool, getClusterCap(pool, frame), u)
              inactive == getInactiveCluster(pool2)
          IN IF inactive # 0
             THEN LET r == resetCluster(pool2[inactive], cell, TRUE, grid, u)
                  IN [pool |-> [pool2 EXCEPT ![inactive] = r.cl],
                      grid |-> r.grid, last |-> <<frame>>]
             ELSE [pool |-> pool2, grid |-> grid, last |-> last]
     ELSE unchanged

\* the cluster forEach of Hive.draw, pool entries i..Len(pool) in array order
RECURSIVE updateClusters(_, _, _)
updateClusters(pool, grid, i) ==
  IF i > Len(pool) THEN [pool |-> pool, grid |-> grid]
  ELSE IF pool[i].active
  THEN LET r == updateCellLifecycle(pool[i], grid)
       IN updateClusters([pool EXCEPT ![i] = r.cl], r.grid, i + 1)
  ELSE updateClusters([pool EXCEPT ![i] = tickCooldown(pool[i])], grid, i + 1)

-----------------------------------------------------------------------------
(* Actions *)

\* pool entries that the step from `old` to `new` activated
Activated(old, new) ==
  {i \in 1..Len(new) : new[i].active /\ (i > Len(old) \/ ~old[i].active)}

RingOf(grid, cluster) ==
  [c \in cluster |-> grid[c].distanceFromCentrePiece + grid[c].border]

\* history after a step that may have activated a cluster
RecordActivation(old, new, grid) ==
  /\ ringAtActivation' =
       [i \in 1..Len(new) |->
          IF i \in Activated(old, new) THEN RingOf(grid, new[i].cluster)
          ELSE IF i > Len(old) THEN <<>> ELSE ringAtActivation[i]]
  /\ released' =
       [i \in 1..Len(new) |->
          IF i \in Activated(old, new) \/ i > Len(old) THEN {} ELSE released[i]]

-----------------------------------------------------------------------------
(* The bees (class Bee and the bee passes of Hive.draw).                      *)
(*                                                                            *)
(* The state machine of a bee is written in frames at 60 fps: durations of    *)
(* dozens to hundreds of frames and a climb of 0.05 per frame.  The model     *)
(* runs it at one tick per FrameScale frames: every hard-wired frame count is *)
(* divided by FrameScale (rounded up) and every per-frame rate is multiplied  *)
(* by it.  Height z is an integer number of 0.05 units, so the ground         *)
(* threshold 0.3 is 6, the layers 1 and 2 are 20 and 40.                      *)
(* The two draws of #updateBee are inputs: r in thousandths from RandomR and  *)
(* rt in hundredths from RandomT; the draws Hive makes in the same frame      *)
(* (durations, the landing preference) return rt as well.                     *)
(* Positions are whole pixels and the heading theta is in thousandths of a    *)
(* radian; the cone test of the proximity loop takes the compass direction   *)
(* nearest to it.                                                            *)

FrameScale == 5

\* a count of frames of the source, in ticks of the model
Frames(n) == (n + FrameScale - 1) \div FrameScale

beeSize == 30

animationType == {"idle", "blocked", "walk", "turn", "flutter", "takeoff", "fly", "land", "hover"}

RandomR == {2, 50, 120, 250, 450, 900}
RandomT == {0, 99}
\* the two draws of enterState for a hover (direction and phase), in hundredths,
\* as the frame-by-frame specifications take them
hoverDraw == 0

\* Math.floor(base + rt * span) frames
FrameSpan(base, span, rt) == Frames(base + (rt * span) \div 100)

\* z thresholds, in units of 0.05
GroundZ == 6
TakeoffExitZ == 30
LayerSplitZ == 25
LayerOneZ == 20
LayerTwoZ == 40
\* climb and descent per tick
ZStep == FrameScale
\* percentage of the gap to the layer closed per tick
FlyMagnetPct == 5 * FrameScale
HoverMagnetPct == 4 * FrameScale

\* new Bee(x, y, size): a worker that walks
Bee(x, y) ==
  [x |-> x, y |-> y, z |-> 0, theta |-> 0, animation |-> "walk",
   hoverAnchorX |-> x, hoverAnchorY |-> y, hoverRadius |-> 0,
   hoverAngleOffset |-> 0, hoverDirection |-> 1,
   hasTarget |-> FALSE, onGround |-> TRUE, groundMotion |-> FALSE,
   stateCounter |-> 0, stateDuration |-> 0, minStateFrames |-> 0,
   trailTick |-> 0, trailSide |-> FALSE, stickyAge |-> 0, stickyKind |-> "none",
   proximityCooldown |-> 0]

\* the hover radius enterState derives, in whole pixels:
\* max(3, size * 0.15) * (1 + 0.3 * clamp(z, 0, 2))
hoverRadiusFor(z) ==
  (Max(300, beeSize * 15) * (2000 + 30 * Min(LayerTwoZ, Max(0, z)))) \div 200000

\* the part of enterState after the early return: the state really changes
enterNewState(b, next, duration, u) ==
  LET d == IF duration = <<>> THEN b.stateDuration ELSE duration[1]
  IN CASE next = "flutter" ->
            [b EXCEPT !.animation = next, !.stateCounter = 0, !.stateDuration = d,
                      !.proximityCooldown = Frames(30)]
       [] next = "takeoff" ->
            [b EXCEPT !.animation = next, !.stateCounter = 0, !.stateDuration = d,
                      !.proximityCooldown = Frames(45)]
       [] next = "hover" ->
            [b EXCEPT !.animation = next, !.stateCounter = 0, !.stateDuration = d,
                      !.proximityCooldown = Frames(30),
                      !.hoverAnchorX = b.x, !.hoverAnchorY = b.y,
                      !.hoverRadius = hoverRadiusFor(b.z),
                      !.hoverDirection = IF u < 50 THEN 0 - 1 ELSE 1,
                      !.hoverAngleOffset = u]
       [] next = "land" ->
            [b EXCEPT !.animation = next, !.stateCounter = 0, !.stateDuration = d,
                      !.proximityCooldown = Frames(20)]
       [] OTHER ->
            [b EXCEPT !.animation = next, !.stateCounter = 0, !.stateDuration = d]

enterStateReinitialising(b, next, duration, u) ==
  enterNewState(b, next, duration, u)

\* Bee.enterState(next, duration?): duration is <<>> when the call passes none
enterState(b, next, duration, u) ==
  IF next = b.animation
    THEN [b EXCEPT !.stateDuration = IF duration = <<>> THEN @ ELSE duration[1]]
    ELSE enterNewState(b, next, duration, u)

\* #updateBee, head: the counters of the frame
tickCounters(b) ==
  [b EXCEPT !.stateCounter = @ + 1,
            !.minStateFrames = IF @ > 0 THEN @ - 1 ELSE @,
            !.proximityCooldown = IF @ > 0 THEN @ - 1 ELSE @]

\* the expiry of idle tested two frames late
idleExpiryLate(b, d, r, rt) ==
  IF b.stateCounter > d + 1
    THEN IF r > 150 THEN enterState(b, "walk", <<FrameSpan(180, 240, rt)>>, hoverDraw)
         ELSE IF r > 850 THEN enterState(b, "flutter", <<FrameSpan(10, 5, rt)>>, hoverDraw)
         ELSE enterState(b, "turn", <<FrameSpan(45, 60, rt)>>, hoverDraw)
    ELSE b

\* case idle; d is the duration in force after the on-entry assignment
idleExpiry(b, d, r, rt) ==
  IF b.stateCounter >= d
    THEN IF r > 150 THEN enterState(b, "walk", <<FrameSpan(180, 240, rt)>>, hoverDraw)
         ELSE IF r > 850 THEN enterState(b, "flutter", <<FrameSpan(10, 5, rt)>>, hoverDraw)
         ELSE enterState(b, "turn", <<FrameSpan(45, 60, rt)>>, hoverDraw)
    ELSE b

updateIdle(b, r, rt) ==
  idleExpiry([b EXCEPT !.z = 0,
                       !.stateDuration = IF b.stateCounter = 1 \/ @ = 0
                                           THEN FrameSpan(60, 120, rt) ELSE @],
             IF b.stateCounter = 1 \/ b.stateDuration = 0
               THEN FrameSpan(60, 120, rt) ELSE b.stateDuration,
             r, rt)

\* case blocked
blockedExpiry(b, d, r, rt) ==
  IF b.stateCounter >= d
    THEN IF r > 400 THEN enterState(b, "turn", <<FrameSpan(45, 60, rt)>>, hoverDraw)
         ELSE enterState(b, "takeoff", <<FrameSpan(40, 40, rt)>>, hoverDraw)
    ELSE b

updateBlocked(b, r, rt) ==
  blockedExpiry([b EXCEPT !.z = 0,
                          !.stateDuration = IF b.stateCounter = 1
                                              THEN FrameSpan(40, 60, rt) ELSE @],
                IF b.stateCounter = 1 THEN FrameSpan(40, 60, rt) ELSE b.stateDuration,
                r, rt)

\* case walk
walkExpiry(b, d, r, rt) ==
  IF b.stateCounter > Frames(30) /\ r < 5
    THEN enterState(b, "idle", <<FrameSpan(300, 30, rt)>>, hoverDraw)
  ELSE IF b.stateCounter >= d
    THEN IF r < 100 THEN enterState(b, "turn", <<FrameSpan(30, 60, rt)>>, hoverDraw)
         ELSE IF r < 150 THEN enterState(b, "takeoff", <<FrameSpan(40, 40, rt)>>, hoverDraw)
         ELSE IF r < 350 THEN enterState(b, "flutter", <<FrameSpan(10, 5, rt)>>, hoverDraw)
         ELSE enterState(b, "idle", <<>>, hoverDraw)
  ELSE b

updateWalk(b, r, rt) ==
  walkExpiry([b EXCEPT !.z = 0,
                       !.stateDuration = IF b.stateCounter = 1
                                           THEN FrameSpan(180, 240, rt) ELSE @],
             IF b.stateCounter = 1 THEN FrameSpan(180, 240, rt) ELSE b.stateDuration,
             r, rt)

\* case turn
updateTurn(b, r, rt) ==
  IF b.stateCounter >= b.stateDuration
    THEN enterState([b EXCEPT !.z = 0], "walk", <<FrameSpan(180, 240, rt)>>, hoverDraw)
    ELSE [b EXCEPT !.z = 0]

\* case flutter
updateFlutter(b, r, rt) ==
  IF b.stateCounter >= b.stateDuration
    THEN enterState([b EXCEPT !.z = 0], "walk", <<FrameSpan(120, 180, rt)>>, hoverDraw)
    ELSE [b EXCEPT !.z = 0]

\* case takeoff without the ceiling on the climb
updateTakeoffUncapped(b, r, rt) ==
  IF b.z + ZStep >= TakeoffExitZ \/ b.stateCounter >= b.stateDuration
    THEN enterState([b EXCEPT !.z = @ + ZStep], "fly",
                    <<FrameSpan(240, 360, rt)>>, hoverDraw)
    ELSE [b EXCEPT !.z = @ + ZStep]

\* case takeoff
updateTakeoff(b, r, rt) ==
  IF Min(LayerTwoZ, b.z + ZStep) >= TakeoffExitZ \/ b.stateCounter >= b.stateDuration
    THEN enterState([b EXCEPT !.z = Min(LayerTwoZ, @ + ZStep)], "fly",
                    <<FrameSpan(240, 360, rt)>>, hoverDraw)
    ELSE [b EXCEPT !.z = Min(LayerTwoZ, @ + ZStep)]

\* z after the soft magnet toward the nearest layer
magnetZ(z, pct) ==
  z + (((IF z < LayerSplitZ THEN LayerOneZ ELSE LayerTwoZ) - z) * pct) \div 100

\* case fly
updateFly(b, r, rt) ==
  IF b.stateCounter >= b.stateDuration
    THEN IF r > 500
           THEN [enterState([b EXCEPT !.z = magnetZ(@, FlyMagnetPct)], "hover",
                            <<FrameSpan(45, 45, rt)>>, hoverDraw)
                   EXCEPT !.minStateFrames = Frames(10)]
           ELSE [enterState([b EXCEPT !.z = magnetZ(@, FlyMagnetPct)], "land",
                            <<FrameSpan(40, 40, rt)>>, hoverDraw)
                   EXCEPT !.minStateFrames = Frames(12)]
    ELSE [b EXCEPT !.z = magnetZ(@, FlyMagnetPct)]

\* case land: the touchdown assigns the animation directly
updateLand(b, r, rt) ==
  IF Max(0, b.z - ZStep) <= 0
    THEN [b EXCEPT !.z = Max(0, @ - ZStep), !.animation = "walk"]
    ELSE [b EXCEPT !.z = Max(0, @ - ZStep)]

\* case hover: the eased circle radius, in hundredths of a pixel; it is the
\* local `r` that the expiry test of the hover case reads
hoverCircleRadius(b) ==
  b.hoverRadius * (30 + (70 * Min(100, (b.stateCounter * FrameScale * 100) \div 10)) \div 100)

updateHover(b, r, rt) ==
  IF b.stateCounter >= (IF b.stateDuration # 0 THEN b.stateDuration ELSE Frames(120))
    THEN IF hoverCircleRadius(b) > 80
           THEN enterState([b EXCEPT !.z = magnetZ(@, HoverMagnetPct)], "fly",
                           <<FrameSpan(180, 240, rt)>>, hoverDraw)
           ELSE enterState([b EXCEPT !.z = magnetZ(@, HoverMagnetPct)], "land",
                           <<FrameSpan(40, 40, rt)>>, hoverDraw)
    ELSE [b EXCEPT !.z = magnetZ(@, HoverMagnetPct)]

\* the switch of #updateBee
stateBehaviour(b, r, rt) ==
  CASE b.animation = "idle" -> updateIdle(b, r, rt)
    [] b.animation = "blocked" -> updateBlocked(b, r, rt)
    [] b.animation = "walk" -> updateWalk(b, r, rt)
    [] b.animation = "turn" -> updateTurn(b, r, rt)
    [] b.animation = "flutter" -> updateFlutter(b, r, rt)
    [] b.animation = "takeoff" -> updateTakeoff(b, r, rt)
    [] b.animation = "fly" -> updateFly(b, r, rt)
    [] b.animation = "land" -> updateLand(b, r, rt)
    [] b.animation = "hover" -> updateHover(b, r, rt)

\* whether the frame moved or turned the bee: walk, fly and hover displace it,
\* turn and takeoff add steering noise, and a bee with a target is steered
\* unless it rests on the ground in idle or blocked
movesThisFrame(b) ==
  \/ b.animation \in {"walk", "fly", "hover", "turn", "takeoff"}
  \/ b.hasTarget /\ ~(b.z < GroundZ /\ b.animation \in {"idle", "blocked"})

\* the tail of #updateBee leaving onGround as the constructor set it
gaitActivationAlwaysGrounded(b, moved) ==
  [b EXCEPT !.onGround = TRUE,
            !.groundMotion = moved]

\* #updateBee, tail: onGround and groundMotion from the new height
gaitActivation(b, moved) ==
  [b EXCEPT !.onGround = b.z < GroundZ,
            !.groundMotion = b.z < GroundZ /\ moved]

\* Bee.#updateBee
updateBee(b, r, rt) ==
  gaitActivation(stateBehaviour(tickCounters(b), r, rt), movesThisFrame(b))

\* Hive.draw, head: the per-frame decrement of the dwell lock and the cooldown
decrementLocks(b) ==
  [b EXCEPT !.minStateFrames = IF @ > 0 THEN @ - 1 ELSE @,
            !.proximityCooldown = IF @ > 0 THEN @ - 1 ELSE @]

\* Math.round(Math.min(2, Math.max(0, z))): the layer of the proximity bins
layerOf(z) == IF z < 10 THEN 0 ELSE IF z < 30 THEN 1 ELSE 2

\* TRAILS.  The source keeps feet sticky for 4 seconds, fades a print over 20
\* seconds and caps the buffer at 5000 prints; the model divides the seconds
\* by 4 and caps the buffer at MAX_TRAILS prints.  stickyAge is counted in
\* units of STATIONARY_DECAY (half a frame).
STICKY_SECONDS == 1
FADE_SECONDS == 5
MAX_TRAILS == 3
STICKY_AGE == 2 * (fps * STICKY_SECONDS)
MOVING_DECAY == 2
STATIONARY_DECAY == 1
MOVING_CADENCE == Frames(6)
FADE_FRAMES == fps * FADE_SECONDS

\* what the bee stands on, as #addFootprintsForBees sees it: no sticky cell or
\* an open honey cell (a pollen cell differs only in the kind it records)
DustKinds == {"none", "honey"}

\* #addFootprintsForBees, the test that the bee drops a print this frame;
\* dusty names the sticky cell under the bee, "none" when there is none
dropsFootprint(b, dusty) ==
  /\ b.onGround
  /\ b.groundMotion
  /\ (IF dusty # "none" THEN STICKY_AGE ELSE b.stickyAge) > 0
  /\ (IF dusty # "none" THEN dusty ELSE b.stickyKind) # "none"
  /\ (b.trailTick + 1) % MOVING_CADENCE = 0

\* stickyAge after the decay of one frame
stickyDecay(age, refreshed, moving) ==
  IF ~refreshed /\ age > 0
    THEN age - (IF moving THEN MOVING_DECAY ELSE STATIONARY_DECAY)
    ELSE age

\* #addFootprintsForBees, the body of the loop for one bee; trailTick is read
\* only modulo the cadence and is kept modulo the cadence
addFootprintsForBee(b, dusty) ==
  IF ~b.onGround
    THEN [b EXCEPT !.trailTick = 0, !.stickyAge = 0, !.stickyKind = "none"]
    ELSE [b EXCEPT
            !.trailTick = (@ + 1) % MOVING_CADENCE,
            !.stickyKind = IF dusty # "none" THEN dusty ELSE @,
            !.stickyAge = stickyDecay(IF dusty # "none" THEN STICKY_AGE ELSE @,
                                      dusty # "none", b.groundMotion),
            !.trailSide = IF dropsFootprint(b, dusty) THEN ~@ ELSE @]

\* #drawAndCullTrails keeps a print while 1 - age / maxAge is positive
trailVisible(t) == t.age < t.maxAge

\* #drawAndCullTrails: every print ages by one frame, the faded ones are removed
drawAndCullTrails(ts) ==
  SelectSeq([i \in 1..Len(ts) |-> [ts[i] EXCEPT !.age = @ + 1]], trailVisible)

\* #addFootprintsForBees, the push of a print without the splice after it
pushTrailUncapped(ts, kind) ==
  Append(ts, [kind |-> kind, age |-> 0, maxAge |-> FADE_FRAMES])

\* #addFootprintsForBees: push a print, then splice the oldest off above the cap
pushTrail(ts, kind) ==
  IF Len(ts) + 1 > MAX_TRAILS
    THEN SubSeq(Append(ts, [kind |-> kind, age |-> 0, maxAge |-> FADE_FRAMES]),
                Len(ts) + 2 - MAX_TRAILS, Len(ts) + 1)
    ELSE Append(ts, [kind |-> kind, age |-> 0, maxAge |-> FADE_FRAMES])

\* #addFootprintsForBees: the loop over the bees from index i on; dusts[i] names
\* the sticky cell under bee i
RECURSIVE addFootprintsForBees(_, _, _, _)
addFootprintsForBees(bs, ts, dusts, i) ==
  IF i > Len(bs)
    THEN [bees |-> bs, trails |-> ts]
    ELSE addFootprintsForBees(
           [bs EXCEPT ![i] = addFootprintsForBee(bs[i], dusts[i])],
           IF dropsFootprint(bs[i], dusts[i])
             THEN pushTrail(ts, IF dusts[i] # "none" THEN dusts[i] ELSE bs[i].stickyKind)
             ELSE ts,
           dusts, i + 1)

\* Hive.draw, update pass: a bee without a target takes the one picked
assignTarget(b, picked) ==
  [b EXCEPT !.hasTarget = @ \/ picked]

\* #considerTakeoffToDistantTarget; far says that the target is beyond the
\* threshold and the draw fell under the probability
considerTakeoffToDistantTarget(b, far, rt) ==
  IF b.onGround /\ b.animation \in {"idle", "blocked", "walk", "turn"} /\ b.hasTarget /\ far
    THEN enterState(b, "takeoff", <<FrameSpan(30, 30, rt)>>, hoverDraw)
    ELSE b

\* Hive.draw, update pass: prefer the ground over an active cluster
landOverCluster(b, over, rt) ==
  IF /\ layerOf(b.z) > 0
     /\ over
     /\ b.minStateFrames <= 0
     /\ b.animation \notin {"land", "takeoff", "hover"}
    THEN [enterState(b, "land", <<FrameSpan(25, 35, rt)>>, hoverDraw)
            EXCEPT !.proximityCooldown = (fps * 5) \div 10,
                   !.minStateFrames = Frames(10)]
    ELSE b

\* Hive.draw, proximity loop: the bee is skipped
proximitySkipped(b) ==
  b.minStateFrames > 0 \/ b.proximityCooldown > 0 \/ b.animation = "turn"

\* Hive.draw, proximity loop: the response of a bee that faces a neighbour
\* within the threshold
proximityResponse(b, over, roll, rt) ==
  IF layerOf(b.z) > 0
    THEN IF (over \/ roll < 65) /\ b.animation \notin {"land", "takeoff"}
           THEN [enterState(b, "land", <<FrameSpan(30, 45, rt)>>, hoverDraw)
                   EXCEPT !.proximityCooldown = (fps * 5) \div 10,
                          !.minStateFrames = Frames(12)]
         ELSE IF b.animation # "hover"
           THEN [enterState(b, "hover", <<FrameSpan(20, 25, rt)>>, hoverDraw)
                   EXCEPT !.minStateFrames = Frames(10)]
         ELSE b
    ELSE IF b.animation # "blocked"
           THEN enterState(b, "blocked", <<FrameSpan(40, 60, rt)>>, hoverDraw)
           ELSE b

\* Hive.draw, proximity loop for one bee; near says that some other bee of its
\* layer is within the threshold and faced
resolveProximity(b, near, over, roll, rt) ==
  IF proximitySkipped(b) \/ ~near THEN b ELSE proximityResponse(b, over, roll, rt)

\* Hive.proximityThreshold = beeSize * PROX.THRESH_MULT
proximityThreshold == (beeSize * 15) \div 10

\* PROX.LAYER_SCALE_GROUND and PROX.LAYER_SCALE_AIR, in hundredths
layerScale(layer) == IF layer = 0 THEN 100 ELSE 80

\* a full turn and the eight compass directions, in thousandths of a radian
TwoPi == 6283

\* the compass direction nearest to a heading, counted in eighths of a turn
headingOf(theta) == (((theta % TwoPi) * 8 + TwoPi \div 2) \div TwoPi) % 8

\* the unit vector of a compass direction, up to its length
HeadingVector ==
  <<<<1, 0>>, <<1, 1>>, <<0, 1>>, <<0 - 1, 1>>,
    <<0 - 1, 0>>, <<0 - 1, 0 - 1>>, <<0, 0 - 1>>, <<1, 0 - 1>>>>

\* the cone test on the displacement <<dx, dy>> and the heading vector h: the
\* angle between them is under pi/4; atan2(0, 0) is 0, the heading of theta 0
withinCone(dx, dy, h, theta) ==
  IF dx = 0 /\ dy = 0
    THEN theta = 0
    ELSE /\ dx * h[1] + dy * h[2] > 0
         /\ 2 * (dx * h[1] + dy * h[2]) * (dx * h[1] + dy * h[2])
              > (dx * dx + dy * dy) * (h[1] * h[1] + h[2] * h[2])

\* #isFacingTarget(bee, target) with the default cone of pi/4
isFacingTarget(a, b) ==
  withinCone(b.x - a.x, b.y - a.y, HeadingVector[headingOf(a.theta) + 1], headingOf(a.theta))

\* #getDistance(a, b) < proximityThreshold * layerScale
withinThreshold(a, b, layer) ==
  ((b.x - a.x) * (b.x - a.x) + (b.y - a.y) * (b.y - a.y)) * 10000
     < (proximityThreshold * layerScale(layer)) * (proximityThreshold * layerScale(layer))

\* the spatial hash with bins of half the threshold
binOfHalfSize(b) ==
  <<b.x \div (proximityThreshold \div 2), b.y \div (proximityThreshold \div 2), layerOf(b.z)>>

\* the bin of the spatial hash a bee falls in: floor(x / BIN), floor(y / BIN), layer
binOf(b) == <<b.x \div proximityThreshold, b.y \div proximityThreshold, layerOf(b.z)>>

\* the proximity loop looking only into the bin of the bee itself
binsInReachSameBin(ka, kb) == ka = kb

\* bin kb is the bin ka or one of its 8 neighbours on the same layer
binsInReach(ka, kb) ==
  /\ ka[3] = kb[3]
  /\ Abs(ka[1] - kb[1]) <= 1
  /\ Abs(ka[2] - kb[2]) <= 1

\* the proximity loop finds, for bee i, a bee in reach that it faces within the threshold
facesNeighbour(bs, i) ==
  \E j \in 1..Len(bs) :
     /\ j # i
     /\ binsInReach(binOf(bs[i]), binOf(bs[j]))
     /\ withinThreshold(bs[i], bs[j], layerOf(bs[i].z))
     /\ isFacingTarget(bs[i], bs[j])

\* Hive.draw, the proximity loop over all the bees; overs[i] says whether bee i
\* is over an active cluster
proximityPass(bs, overs, rt) ==
  [i \in 1..Len(bs) |-> resolveProximity(bs[i], facesNeighbour(bs, i), overs[i], rt, rt)]

\* handleClick, part 1, for a bee within the scare radius
scareBee(b, rt) ==
  IF b.animation \notin {"fly", "takeoff"}
    THEN enterState([b EXCEPT !.hasTarget = TRUE], "takeoff", <<FrameSpan(1, 5, rt)>>, hoverDraw)
    ELSE [b EXCEPT !.hasTarget = TRUE]

-----------------------------------------------------------------------------
(* The canvas.  Points handed to the nearest-cell lookup are counted in half *)
(* pixels, so that the centre of every cell (x = 22.5 r with the cell size   *)
(* 15 of a bee of 30) is a whole number; the height of a hexagon, sqrt(3)    *)
(* times the cell size, is taken as 26 pixels.  The fractional axial         *)
(* coordinates of #xyToAxial are kept exactly, as numerators over AxialDen.  *)

\* Hive.honeyCombSize = beeSize / 2
honeyCombSize == beeSize \div 2

\* hexWidth * 0.75 and hexHeight of #initialiseGrid and #xyToAxial, in half pixels
colStep == 3 * honeyCombSize
hexHeight == 52

\* the canvas position a cell is created at, in half pixels
cellX(c) == colStep * c[2]
cellY(c) == hexHeight * c[1] + (hexHeight \div 2) * c[2]

AxialDen == colStep * hexHeight

\* the conversion without the half column a row is shifted by
xyToAxialUnskewed(x, y) ==
  [q |-> colStep * y, r |-> hexHeight * x]

\* Hive.#xyToAxial: r = x / (hexWidth * 0.75), q = y / hexHeight - r / 2
xyToAxial(x, y) ==
  [q |-> colStep * y - (hexHeight \div 2) * x, r |-> hexHeight * x]

\* Math.round of n / AxialDen: the nearest integer, a half going up
mathRound(n) == (2 * n + AxialDen) \div (2 * AxialDen)

\* the last step of #axialRound: the component with the largest rounding error
\* is recomputed from the other two
axialRoundFix(rx, ry, rz, xDiff, yDiff, zDiff) ==
  IF xDiff > yDiff /\ xDiff > zDiff THEN [q |-> rz, r |-> 0 - ry - rz]
  ELSE IF yDiff > zDiff THEN [q |-> rz, r |-> rx]
  ELSE [q |-> 0 - rx - ry, r |-> rx]

\* Hive.#axialRound
axialRound(qf, rf) ==
  axialRoundFix(mathRound(rf), mathRound(0 - rf - qf), mathRound(qf),
                Abs(mathRound(rf) * AxialDen - rf),
                Abs(mathRound(0 - rf - qf) * AxialDen - (0 - rf - qf)),
                Abs(mathRound(qf) * AxialDen - qf))

\* the seven keys #getNearestCellToPointFast looks up, in its order
candidateKeys(q, r) ==
  << <<q, r>>, <<q + 1, r>>, <<q - 1, r>>, <<q, r + 1>>, <<q, r - 1>>,
     <<q + 1, r - 1>>, <<q - 1, r + 1>> >>

\* the square of Math.hypot(c.x - x, c.y - y), in half pixels
hypotSquared(c, x, y) ==
  (cellX(c) - x) * (cellX(c) - x) + (cellY(c) - y) * (cellY(c) - y)

\* the loop of #getNearestCellToPointFast over the candidates found: the first
\* of the nearest; <<>> is undefined
nearestOf(found, x, y) ==
  IF found = <<>> THEN [cell |-> <<>>, dist |-> <<>>]
  ELSE LET best == SetMin({i \in 1..Len(found) :
                             \A j \in 1..Len(found) :
                                hypotSquared(found[i], x, y) <= hypotSquared(found[j], x, y)})
       IN [cell |-> <<found[best]>>, dist |-> <<hypotSquared(found[best], x, y)>>]

\* the scan of the whole grid the lookup replaced: the nearest of all the cells
getNearestCellToPointSlow(grid, x, y) ==
  nearestOf(SelectSeq([i \in 1..GridSize |-> CHOOSE c \in Cells : GridOrder[c] = i - 1],
                      LAMBDA k : k \in DOMAIN grid),
            x, y)

\* Hive.#getNearestCellToPointFast over the grid: the cell, <<>> when the
\* rounded cell and its six neighbours are all missing, and the square of its
\* distance, <<>> for Infinity
getNearestCellToPointFast(grid, x, y) ==
  nearestOf(SelectSeq(candidateKeys(axialRound(xyToAxial(x, y).q, xyToAxial(x, y).r).q,
                                    axialRound(xyToAxial(x, y).q, xyToAxial(x, y).r).r),
                      LAMBDA k : k \in DOMAIN grid),
            x, y)

\* Hive.#isOverActiveCluster
isOverActiveCluster(grid, x, y) ==
  LET found == getNearestCellToPointFast(grid, x, y)
  IN /\ found.cell # <<>>
     /\ grid[found.cell[1]].active
     /\ grid[found.cell[1]].type # "empty"
     /\ found.dist[1] <= 4 * honeyCombSize * honeyCombSize

\* #addFootprintsForBees, the cell test: the kind of dust under a point, "none"
\* when no cell is found, the cell is further than the cell size, inactive, or
\* of another type
dustUnder(grid, x, y) ==
  LET found == getNearestCellToPointFast(grid, x, y)
  IN IF found.cell = <<>> THEN "none"
     ELSE IF found.dist[1] > 4 * honeyCombSize * honeyCombSize THEN "none"
     ELSE IF ~grid[found.cell[1]].active THEN "none"
     ELSE IF grid[found.cell[1]].type = "honey filled" THEN "honey"
     ELSE IF grid[found.cell[1]].type = "pollen" THEN "pollen"
     ELSE "none"

\* Math.max(CLICK.SCARE_RADIUS_MIN, beeSize * CLICK.SCARE_RADIUS_BEE_MULT)
scareRadius == Max(120, beeSize * 4)

\* Math.atan2(dy, dx) in thousandths of a radian, for the displacements along
\* the eight compass directions and for none at all
atan2(dy, dx) ==
  CASE dx = 0 /\ dy = 0 -> 0
    [] dy = 0 /\ dx > 0 -> 0
    [] dy = 0 /\ dx < 0 -> 3142
    [] dx = 0 /\ dy > 0 -> 1571
    [] dx = 0 /\ dy < 0 -> 0 - 1571
    [] dx = dy /\ dx > 0 -> 785
    [] dx = dy /\ dx < 0 -> 0 - 2356
    [] dx = 0 - dy /\ dx > 0 -> 0 - 785
    [] dx = 0 - dy /\ dx < 0 -> 2356

\* the bee turning to the click instead of away from it
fleeToward(b, x, y, u) ==
  IF (b.x - x) * (b.x - x) + (b.y - y) * (b.y - y) <= scareRadius * scareRadius
    THEN [scareBee(b, u) EXCEPT !.theta = atan2(y - b.y, x - b.x) + (u - 50) * 3]
    ELSE b

\* handleClick, part 1, for one bee: within the scare radius of the click at
\* <<x, y>> it turns away, with a jitter of (u - 0.5) * 0.3, and is scared
fleeFrom(b, x, y, u) ==
  IF (b.x - x) * (b.x - x) + (b.y - y) * (b.y - y) <= scareRadius * scareRadius
    THEN [scareBee(b, u) EXCEPT !.theta = atan2(b.y - y, b.x - x) + (u - 50) * 3]
    ELSE b

\* Hive.handleClick(x, y), x and y in pixels: the bees after part 1, the cell
\* the lookup of part 2 finds and the clusters after part 2
handleClick(bs, pool, grid, frame, last, x, y, u) ==
  LET found == getNearestCellToPointFast(grid, 2 * x, 2 * y)
  IN [bees |-> [i \in 1..Len(bs) |-> fleeFrom(bs[i], x, y, u)],
      found |-> found.cell,
      spawn |-> IF found.cell = <<>>
                  THEN [pool |-> pool, grid |-> grid, last |-> last]
                  ELSE clickSpawn(pool, grid, frame, last, found.cell[1], u)]

\* the bee count of #initialiser without its clamp
numberOfBeesUnclamped(width, height, size, ratioPct) ==
  (width * height * 100) \div Max(100, ratioPct * size * size)

\* Hive.#initialiser, the bee count: the canvas area over the area a bee claims,
\* beeDensityRatio * beeSize^2 and at least 1, clamped to 1..500; the ratio is
\* in hundredths
numberOfBees(width, height, size, ratioPct) ==
  Max(1, Min((width * height * 100) \div Max(100, ratioPct * size * size), 500))

\* Hive.#initialiser, the bees: new Bee(-30 * i, -30, beeSize) for i = 0..n-1
initialiserBees(n) == [i \in 1..n |-> Bee(0 - 30 * (i - 1), 0 - 30)]

\* Hive.#initialiseGrid: the keys of the cells created for a canvas, which are
\* those with x + hexWidth >= 0, x <= canvasWidth, y >= 0 and
\* y - hexHeight <= canvasHeight among q in -rows..rows-1 and r in -cols..cols-1
initialiseGrid(width, height) ==
  LET cols == ((2 * width + colStep - 1) \div colStep) + 10
      gridRows == ((2 * height + hexHeight - 1) \div hexHeight) + 10
  IN {c \in ((0 - gridRows)..(gridRows - 1)) \X ((0 - cols)..(cols - 1)) :
        /\ cellX(c) + 4 * honeyCombSize >= 0
        /\ cellX(c) <= 2 * width
        /\ cellY(c) >= 0
        /\ cellY(c) - hexHeight <= 2 * height}

-----------------------------------------------------------------------------
NoCall == [stage |-> "none", before |-> Bee(0, 0), next |-> "walk", duration |-> <<>>,
           u |-> 0, after |-> Bee(0, 0)]

NoProx == [stage |-> "none", before |-> <<>>, after |-> <<>>]

NoLookup == [stage |-> "none"]
NoClick == [stage |-> "none"]
NoHoles == [stage |-> "none"]
NoCanvas == <<>>
NoCount == [stage |-> "none"]
NoLoop == [stage |-> "none"]
NoDwell == [stage |-> "none"]
NoMount == [stage |-> "none"]
NoRain == [stage |-> "none"]
NoTypes == [stage |-> "none"]
NoGrids == [stage |-> "none"]

\* nothing of the page is followed
NoPage ==
  /\ lookup = NoLookup
  /\ bees = <<>>
  /\ click = NoClick
  /\ holeRun = NoHoles
  /\ canvas = NoCanvas
  /\ countRun = NoCount
  /\ loop = NoLoop
  /\ dwell = NoDwell
  /\ mount = NoMount
  /\ gridRun = NoGrids
  /\ rain = NoRain
  /\ typeRun = NoTypes

\* no bees are placed together
NoSwarm ==
  /\ trailBees = <<>>
  /\ trails = <<>>
  /\ prox = NoProx

\* no bee is followed
NoBees ==
  /\ bee = Bee(0, 0)
  /\ beePc = "idle"
  /\ printed = FALSE
  /\ call = NoCall
  /\ NoSwarm

-----------------------------------------------------------------------------
NoTiming == [stage |-> "none", maximumDistanceAndBorder |-> 0, u |-> 0,
             visibleTime |-> 0, maximumLifeTime |-> 0]

NoCapRun == [stage |-> "none", gridSize |-> 0, count |-> 0, sum |-> 0, coveragePct |-> 0,
             frame |-> 0, framesPerSec |-> 1, rampStartSec |-> 0, rampStepSec |-> 1, cap |-> <<0>>]

\* the Hive as its constructor leaves it
InitHive ==
  /\ cells = [c \in Cells |-> Honeycomb]
  /\ honeyCombClusters = <<>>
  /\ frameCounter = 0
  /\ lastClusterSpawnFrame = <<>>
  /\ pc = "idle"
  /\ ringAtActivation = <<>>
  /\ released = <<>>
  /\ capComputed = 0

Init ==
  /\ InitHive
  /\ timing = NoTiming
  /\ capRun = NoCapRun
  /\ NoBees
  /\ NoPage

\* Hive.draw, first part: advance the frame counter and run the auto-spawn step
drawSpawn ==
  /\ pc = "idle"
  /\ frameCounter < MaxFrame
  /\ \E u \in RandomU :
       \E r \in {spawnOneClusterIfAllowed(honeyCombClusters, cells, frameCounter + 1,
                                          lastClusterSpawnFrame, u)} :
          /\ honeyCombClusters' = r.pool
          /\ cells' = r.grid
          /\ lastClusterSpawnFrame' = r.last
          /\ RecordActivation(honeyCombClusters, r.pool, r.grid)
  /\ frameCounter' = frameCounter + 1
  /\ capComputed' = getClusterCap(honeyCombClusters, frameCounter + 1)
  /\ pc' = "update"

DrawSpawn == drawSpawn /\ UNCHANGED <<runVars, beeVars, swarmVars, pageVars>>

\* Hive.draw, second part: advance every cluster of the pool
drawUpdate ==
  /\ pc = "update"
  /\ \E r \in {updateClusters(honeyCombClusters, cells, 1)} :
        /\ honeyCombClusters' = r.pool
        /\ cells' = r.grid
        /\ released' = [i \in 1..Len(released) |->
                          released[i] \cup {c \in honeyCombClusters[i].cluster : ~r.grid[c].active}]
  /\ pc' = "idle"
  /\ UNCHANGED <<frameCounter, lastClusterSpawnFrame, ringAtActivation, capComputed>>

DrawUpdate == drawUpdate /\ UNCHANGED <<runVars, beeVars, swarmVars, pageVars>>

\* Hive.handleClick at a point whose nearest cell is `cell`
HandleClick ==
  /\ pc = "idle"
  /\ \E cell \in ClickCells, u \in RandomU :
       \E r \in {clickSpawn(honeyCombClusters, cells, frameCounter,
                            lastClusterSpawnFrame, cell, u)} :
          /\ honeyCombClusters' = r.pool
          /\ cells' = r.grid
          /\ lastClusterSpawnFrame' = r.last
          /\ RecordActivation(honeyCombClusters, r.pool, r.grid)
  /\ UNCHANGED <<frameCounter, pc, capComputed>>
  /\ UNCHANGED <<runVars, beeVars, swarmVars, pageVars>>

Next == DrawSpawn \/ DrawUpdate \/ HandleClick

Spec == Init /\ [][Next]_vars

-----------------------------------------------------------------------------
(* The timing derivation on its own: resetCluster draws the jittered visible  *)
(* time, #initialiser inflates it by the maximum ring delay and derives the   *)
(* lifetime.  maximumDistanceAndBorder is whatever #setDistanceValue left:    *)
(* a region of up to 120 grown cells can be a strand, so values up to         *)
(* MaxRing are regions the growth can produce on a full-page grid.            *)

InitTiming ==
  /\ InitHive
  /\ capRun = NoCapRun
  /\ NoBees
  /\ NoPage
  /\ timing \in [stage : {"reset"}, maximumDistanceAndBorder : 0..MaxRing, u : 0..99,
                 visibleTime : {0}, maximumLifeTime : {0}]

\* resetCluster: this.visibleTime = #randomWithin20Percent(600)
TimingJitter ==
  /\ timing.stage = "reset"
  /\ timing' = [timing EXCEPT !.stage = "jittered",
                              !.visibleTime = randomWithin20Percent(baseVisibleTime, timing.u)]
  /\ UNCHANGED <<hiveVars, capRun, beeVars, swarmVars, pageVars>>

\* #initialiser: visibleTime = #generateVisibleTime(...), maximumLifeTime = #getMaximumLifeTime()
TimingInflate ==
  /\ timing.stage = "jittered"
  /\ \E visible \in {generateVisibleTime(timing.maximumDistanceAndBorder, timing.visibleTime)} :
        timing' = [timing EXCEPT !.stage = "ready",
                                 !.visibleTime = visible,
                                 !.maximumLifeTime = getMaximumLifeTime(visible)]
  /\ UNCHANGED <<hiveVars, capRun, beeVars, swarmVars, pageVars>>

NextTiming == TimingJitter \/ TimingInflate

SpecTiming == InitTiming /\ [][NextTiming]_vars

-----------------------------------------------------------------------------
(* #getClusterCap on its own: one call for a configuration and a pool summary   *)
(* drawn from the sets below.  An active cluster holds at least its seed, so    *)
(* the cells held are never fewer than the clusters holding them.               *)

CapGridSizes == {0, 21, 2000}
CapCoveragePcts == {0 - 50, 0, 33, 100}
CapClusterSizes == {1, 7, 180}
CapFps == {1, 30}
CapRampStarts == {0, 2}
CapRampSteps == {0, 1, 30}

InitCap ==
  /\ InitHive
  /\ timing = NoTiming
  /\ NoBees
  /\ NoPage
  /\ \E gridSize \in CapGridSizes, count \in 0..MaxCapClusters, size \in CapClusterSizes,
        coveragePct \in CapCoveragePcts, frame \in 0..MaxCapFrame, framesPerSec \in CapFps,
        rampStartSec \in CapRampStarts, rampStepSec \in CapRampSteps :
       capRun = [stage |-> "input", gridSize |-> gridSize, count |-> count,
                 sum |-> count * size, coveragePct |-> coveragePct, frame |-> frame,
                 framesPerSec |-> framesPerSec, rampStartSec |-> rampStartSec,
                 rampStepSec |-> rampStepSec, cap |-> <<0>>]

\* one call of #getClusterCap
CapCompute ==
  /\ capRun.stage = "input"
  /\ capRun' = [capRun EXCEPT
                  !.stage = "done",
                  !.cap = capReturned(capRun.gridSize, capRun.count, capRun.sum,
                                     capRun.coveragePct, capRun.frame, capRun.framesPerSec,
                                     capRun.rampStartSec, capRun.rampStepSec)]
  /\ UNCHANGED <<hiveVars, timing, beeVars, swarmVars, pageVars>>

NextCap == CapCompute

SpecCap == InitCap /\ [][NextCap]_vars

-----------------------------------------------------------------------------
(* Bee.enterState on its own: one call on a bee drawn from BeeSamples, for   *)
(* every target state, with and without a duration.                          *)

BeeSamples ==
  [x : {3}, y : {0}, z : {0, LayerOneZ}, theta : {0}, animation : animationType,
   hoverAnchorX : {0}, hoverAnchorY : {0}, hoverRadius : {0, hoverRadiusFor(LayerOneZ)},
   hoverAngleOffset : {0, 50}, hoverDirection : {0 - 1, 1},
   hasTarget : {FALSE}, onGround : {TRUE}, groundMotion : {FALSE},
   stateCounter : {0, 3}, stateDuration : {0, 7}, minStateFrames : {0},
   trailTick : {0}, trailSide : {FALSE}, stickyAge : {0}, stickyKind : {"none"},
   proximityCooldown : {0, 5}]

CallDurations == {<<>>, <<4>>}

InitEnterState ==
  /\ InitHive
  /\ timing = NoTiming
  /\ capRun = NoCapRun
  /\ bee = Bee(0, 0)
  /\ beePc = "idle"
  /\ printed = FALSE
  /\ NoSwarm
  /\ NoPage
  /\ call \in [stage : {"input"}, before : BeeSamples, next : animationType,
                duration : CallDurations, u : RandomT, after : {Bee(0, 0)}]

\* one call of enterState
EnterStateCall ==
  /\ call.stage = "input"
  /\ call' = [call EXCEPT !.stage = "done",
                          !.after = enterState(call.before, call.next, call.duration, call.u)]
  /\ UNCHANGED <<hiveVars, runVars, swarmVars, pageVars, bee, beePc, printed>>

NextEnterState == EnterStateCall

SpecEnterState == InitEnterState /\ [][NextEnterState]_vars

-----------------------------------------------------------------------------
(* One bee of the hive followed through the frames.  Where it is, what lies  *)
(* under it and which bees are near it are the environment's: each frame     *)
(* says whether the cell under the bee is sticky, whether a target was       *)
(* picked, whether the distant-target roll succeeded, whether the bee is     *)
(* over an active cluster and whether it faces a neighbour of its layer.     *)

InitBee ==
  /\ InitHive
  /\ timing = NoTiming
  /\ capRun = NoCapRun
  /\ call = NoCall
  /\ bee = Bee(0, 0)
  /\ beePc = "idle"
  /\ printed = FALSE
  /\ NoSwarm
  /\ NoPage

\* Hive.draw, first part for the bee: the lock decrement, Bee.draw (which runs
\* #updateBee) and #addFootprintsForBees
BeeUpdate ==
  /\ beePc = "idle"
  /\ \E r \in RandomR, rt \in RandomT, dusty \in DustKinds :
       \E moved \in {updateBee(decrementLocks(bee), r, rt)} :
          /\ bee' = addFootprintsForBee(moved, dusty)
          /\ printed' = dropsFootprint(moved, dusty)
  /\ beePc' = "passes"
  /\ UNCHANGED <<hiveVars, runVars, swarmVars, pageVars, call>>

\* Hive.draw, second part for the bee: the update pass and the proximity loop
BeePasses ==
  /\ beePc = "passes"
  /\ \E picked \in BOOLEAN, far \in BOOLEAN, over \in BOOLEAN, near \in BOOLEAN,
        rt \in RandomT :
       bee' = resolveProximity(
                landOverCluster(
                  considerTakeoffToDistantTarget(assignTarget(bee, picked), far, rt),
                  over, rt),
                near, over, rt, rt)
  /\ beePc' = "idle"
  /\ UNCHANGED <<hiveVars, runVars, swarmVars, pageVars, call, printed>>

\* Hive.handleClick within the scare radius of the bee
BeeClick ==
  /\ beePc = "idle"
  /\ \E rt \in RandomT : bee' = scareBee(bee, rt)
  /\ UNCHANGED <<hiveVars, runVars, swarmVars, pageVars, call, beePc, printed>>

NextBee == BeeUpdate \/ BeePasses \/ BeeClick

SpecBee == InitBee /\ [][NextBee]_vars

-----------------------------------------------------------------------------
(* The footprint buffer: the first two bees of a hive walk over the comb.    *)
(* Whether a bee is on the ground and moving is what Bee.draw left in        *)
(* onGround and groundMotion; here it is the environment's, as is the cell   *)
(* under it.                                                                 *)

\* Hive.#initialiser: new Bee(-30 * i, -30, beeSize) for i = 0, 1
TrailBees == <<Bee(0, 0 - 30), Bee(0 - 30, 0 - 30)>>
TrailBeeCount == Len(TrailBees)

\* what Bee.draw and the grid leave for one bee in one frame
TrailScenes ==
  {[onGround |-> TRUE, groundMotion |-> TRUE, dusty |-> "honey"],
   [onGround |-> TRUE, groundMotion |-> TRUE, dusty |-> "none"],
   [onGround |-> TRUE, groundMotion |-> FALSE, dusty |-> "none"],
   [onGround |-> FALSE, groundMotion |-> FALSE, dusty |-> "none"]}

InitTrails ==
  /\ InitHive
  /\ timing = NoTiming
  /\ capRun = NoCapRun
  /\ bee = Bee(0, 0)
  /\ beePc = "idle"
  /\ printed = FALSE
  /\ call = NoCall
  /\ prox = NoProx
  /\ NoPage
  /\ trailBees = TrailBees
  /\ trails = <<>>

\* Hive.draw for the footprints: #drawAndCullTrails, the bees drawn and moved,
\* then #addFootprintsForBees
TrailsFrame ==
  /\ \E scenes \in [1..TrailBeeCount -> TrailScenes] :
       \E r \in {addFootprintsForBees(
                    [i \in 1..TrailBeeCount |->
                       [trailBees[i] EXCEPT !.onGround = scenes[i].onGround,
                                            !.groundMotion = scenes[i].groundMotion]],
                    drawAndCullTrails(trails),
                    [i \in 1..TrailBeeCount |-> scenes[i].dusty], 1)} :
          /\ trailBees' = r.bees
          /\ trails' = r.trails
  /\ UNCHANGED <<hiveVars, runVars, beeVars, prox, pageVars>>

NextTrails == TrailsFrame

SpecTrails == InitTrails /\ [][NextTrails]_vars

-----------------------------------------------------------------------------
(* The proximity loop on its own: one pass over two bees placed on the page. *)

\* where the two bees stand and look
FirstBeePlaces == {[x |-> 40, y |-> 0], [x |-> 50, y |-> 0]}
SecondBeePlaces ==
  {[x |-> 0, y |-> 0], [x |-> 44, y |-> 0], [x |-> 80, y |-> 0],
   [x |-> 80, y |-> 30], [x |-> 100, y |-> 0]}
ProxHeadings == {0, 3142}
ProxHeights == {0, LayerOneZ}
\* dwell lock and cooldown of a bee: none, a dwell lock, a cooldown
ProxLocks == {<<0, 0>>, <<1, 0>>, <<0, 1>>}

\* a bee of the hive at a place, in a state
PlacedBee(place, theta, animation, z, locks) ==
  [Bee(place.x, place.y) EXCEPT !.theta = theta, !.animation = animation, !.z = z,
                               !.onGround = z < GroundZ,
                               !.minStateFrames = locks[1],
                               !.proximityCooldown = locks[2]]

InitProximity ==
  /\ InitHive
  /\ timing = NoTiming
  /\ capRun = NoCapRun
  /\ bee = Bee(0, 0)
  /\ beePc = "idle"
  /\ printed = FALSE
  /\ call = NoCall
  /\ trailBees = <<>>
  /\ trails = <<>>
  /\ NoPage
  /\ \E p1 \in FirstBeePlaces, p2 \in SecondBeePlaces, t1 \in ProxHeadings, t2 \in ProxHeadings,
        a1 \in animationType, a2 \in animationType, z1 \in ProxHeights, z2 \in ProxHeights,
        l1 \in ProxLocks, l2 \in ProxLocks :
       prox = [stage |-> "placed",
               before |-> <<PlacedBee(p1, t1, a1, z1, l1), PlacedBee(p2, t2, a2, z2, l2)>>,
               after |-> <<>>, overs |-> <<>>, rt |-> 0]

\* one run of the proximity loop of Hive.draw
ProximityPass ==
  /\ prox.stage = "placed"
  /\ \E overs \in [1..2 -> BOOLEAN], rt \in RandomT :
       prox' = [prox EXCEPT !.stage = "resolved",
                            !.after = proximityPass(prox.before, overs, rt),
                            !.overs = overs,
                            !.rt = rt]
  /\ UNCHANGED <<hiveVars, runVars, beeVars, trailBees, trails, pageVars>>

NextProximity == ProximityPass

SpecProximity == InitProximity /\ [][NextProximity]_vars

-----------------------------------------------------------------------------
(* Clicks on the page while the clusters come and go: the frames of the hive *)
(* with two bees, one standing where two of the click points reach it.       *)

MaxClickFrame == 38

\* the click points, in pixels: over the cell <<1, 0>>, 60 below the first bee;
\* over the cell <<1, 4>>, out of reach of the bees; left of every cell
ClickPoints == {<<0, 30>>, <<90, 90>>, <<0 - 150, 90>>}

\* the bees as #initialiser places them, the first and the eleventh
ClickBees == <<Bee(0, 0 - 30), Bee(0 - 300, 0 - 30)>>

InitClick ==
  /\ InitHive
  /\ timing = NoTiming
  /\ capRun = NoCapRun
  /\ NoBees
  /\ lookup = NoLookup
  /\ click = NoClick
  /\ holeRun = NoHoles
  /\ canvas = NoCanvas
  /\ countRun = NoCount
  /\ loop = NoLoop
  /\ dwell = NoDwell
  /\ mount = NoMount
  /\ gridRun = NoGrids
  /\ rain = NoRain
  /\ typeRun = NoTypes
  /\ bees = ClickBees

\* Hive.draw, first part, in the frames followed
ClickDrawSpawn ==
  /\ frameCounter < MaxClickFrame
  /\ drawSpawn
  /\ click' = NoClick
  /\ UNCHANGED <<runVars, beeVars, swarmVars>>
  /\ UNCHANGED <<lookup, bees, holeRun, canvas, countRun, loop, dwell, mount, rain, typeRun, gridRun>>

\* Hive.draw, second part
ClickDrawUpdate ==
  /\ drawUpdate
  /\ UNCHANGED <<runVars, beeVars, swarmVars, pageVars>>

\* Hive.handleClick(x, y) between two frames, at one of the points given
handleClickAmong(points) ==
  /\ pc = "idle"
  /\ \E p \in points, u \in RandomU :
       \E r \in {handleClick(bees, honeyCombClusters, cells, frameCounter,
                             lastClusterSpawnFrame, p[1], p[2], u)} :
          /\ bees' = r.bees
          /\ honeyCombClusters' = r.spawn.pool
          /\ cells' = r.spawn.grid
          /\ lastClusterSpawnFrame' = r.spawn.last
          /\ RecordActivation(honeyCombClusters, r.spawn.pool, r.spawn.grid)
          /\ click' = [stage |-> "done", x |-> p[1], y |-> p[2], found |-> r.found,
                       bees |-> bees, cells |-> cells, pool |-> honeyCombClusters,
                       last |-> lastClusterSpawnFrame]
  /\ UNCHANGED <<frameCounter, pc, capComputed>>
  /\ UNCHANGED <<runVars, beeVars, swarmVars>>
  /\ UNCHANGED <<lookup, holeRun, canvas, countRun, loop, dwell, mount, rain, typeRun, gridRun>>

HandleClickAt == handleClickAmong(ClickPoints)

NextClick == ClickDrawSpawn \/ ClickDrawUpdate \/ HandleClickAt

SpecClick == InitClick /\ [][NextClick]_vars

-----------------------------------------------------------------------------
(* Clicks among the bees before the first cluster is allowed: two bees, the  *)
(* first in any state and under any lock, and clicks around them.            *)

\* the click points, in pixels: on the first bee; 60 to its right and 60 below
\* it; 120 to its right; 120 below the second bee
ScarePoints == {<<0, 0 - 30>>, <<60, 30>>, <<120, 0 - 30>>, <<0 - 150, 90>>}

\* dwell lock and cooldown of the first bee
ScareLocks == {<<0, 0>>, <<3, 0>>, <<0, 2>>}

InitScare ==
  /\ InitHive
  /\ timing = NoTiming
  /\ capRun = NoCapRun
  /\ NoBees
  /\ lookup = NoLookup
  /\ click = NoClick
  /\ holeRun = NoHoles
  /\ canvas = NoCanvas
  /\ countRun = NoCount
  /\ loop = NoLoop
  /\ dwell = NoDwell
  /\ mount = NoMount
  /\ gridRun = NoGrids
  /\ rain = NoRain
  /\ typeRun = NoTypes
  /\ \E a \in animationType, z \in {0, LayerOneZ}, l \in ScareLocks :
       bees = <<PlacedBee([x |-> 0, y |-> 0 - 30], 0, a, z, l),
                PlacedBee([x |-> 0 - 150, y |-> 0 - 30], 0, "walk", 0, <<0, 0>>)>>

ScareClickAt == handleClickAmong(ScarePoints)

NextScare == ScareClickAt

SpecScare == InitScare /\ [][NextScare]_vars

-----------------------------------------------------------------------------
(* #fillHoles on its own: one run on a grown region drawn from the cells     *)
(* around <<1, 1>>, beside cells of another cluster or none.                 *)

\* the cells a grown region is drawn from: <<1, 1>>, its six neighbours and
\* two cells of the next ring
HoleRegion ==
  {<<1, 1>>, <<1, 0>>, <<2, 0>>, <<2, 1>>, <<1, 2>>, <<0, 2>>, <<0, 1>>, <<2, 0 - 1>>, <<0, 3>>}

\* the cells another cluster holds
HoleOthers == {{}, {<<2, 2>>}, {<<0, 0>>, <<1, 0 - 1>>}}

\* c and d are neighbours on the hex grid
Adjacent(c, d) ==
  <<d[1] - c[1], d[2] - c[2]>> \in
     {<<0, 0 - 1>>, <<1, 0 - 1>>, <<1, 0>>, <<0, 1>>, <<0 - 1, 1>>, <<0 - 1, 0>>}

\* the cells of S that a chain of neighbours within S links to a cell of from
RECURSIVE LinkedWithin(_, _)
LinkedWithin(from, S) ==
  IF \E c \in S \ from : \E d \in from : Adjacent(c, d)
    THEN LinkedWithin(from \cup {c \in S \ from : \E d \in from : Adjacent(c, d)}, S)
    ELSE from

\* #growCluster grows a region cell by neighbouring cell from its centre
IsGrownRegion(S) ==
  S # {} /\ \E c \in S : LinkedWithin({c}, S) = S

InitHoles ==
  /\ InitHive
  /\ timing = NoTiming
  /\ capRun = NoCapRun
  /\ NoBees
  /\ lookup = NoLookup
  /\ bees = <<>>
  /\ click = NoClick
  /\ canvas = NoCanvas
  /\ countRun = NoCount
  /\ loop = NoLoop
  /\ dwell = NoDwell
  /\ mount = NoMount
  /\ gridRun = NoGrids
  /\ rain = NoRain
  /\ typeRun = NoTypes
  /\ \E S \in SUBSET HoleRegion, O \in HoleOthers :
       /\ IsGrownRegion(S)
       /\ holeRun = [stage |-> "grown", cluster |-> S,
                     grid |-> Activate([c \in Cells |-> Honeycomb], S \cup O)]

\* one call of #fillHoles(grid, cluster)
FillHoles ==
  /\ holeRun.stage = "grown"
  /\ holeRun' = [stage |-> "filled", cluster |-> holeRun.cluster, grid |-> holeRun.grid,
                 after |-> fillHoles([grid |-> holeRun.grid, cluster |-> holeRun.cluster])]
  /\ UNCHANGED <<hiveVars, runVars, beeVars, swarmVars>>
  /\ UNCHANGED <<lookup, bees, click, canvas, countRun, loop, dwell, mount, rain, typeRun, gridRun>>

NextHoles == FillHoles

SpecHoles == InitHoles /\ [][NextHoles]_vars

-----------------------------------------------------------------------------
(* The hive built on a small canvas, clicked and resized before the first    *)
(* cluster is allowed.                                                       *)

beeDensityRatioPct == 200   \* Hive.beeDensityRatio (prop), in hundredths
MaxResizes == 2             \* resizes followed

\* the canvas of the grid of this model, in pixels
canvasWidth == (colStep * GridCols) \div 2
canvasHeight == (hexHeight * (GridK - 2)) \div 4

\* the sizes the window is resized to
ResizeSizes == {<<canvasWidth, canvasHeight>>, <<120, 60>>, <<45, 30>>}

\* the click points, in pixels: 30 right of the first bee, 120 below it
ResizePoints == {<<30, 0 - 30>>, <<0, 90>>}

InitResize ==
  /\ InitHive
  /\ timing = NoTiming
  /\ capRun = NoCapRun
  /\ NoBees
  /\ lookup = NoLookup
  /\ click = NoClick
  /\ holeRun = NoHoles
  /\ countRun = NoCount
  /\ loop = NoLoop
  /\ dwell = NoDwell
  /\ mount = NoMount
  /\ gridRun = NoGrids
  /\ rain = NoRain
  /\ typeRun = NoTypes
  /\ canvas = [width |-> canvasWidth, height |-> canvasHeight, resizes |-> 0]
  /\ bees = initialiserBees(numberOfBees(canvasWidth, canvasHeight, beeSize, beeDensityRatioPct))

ResizeClickAt == handleClickAmong(ResizePoints)

\* Hive.resize(width, height): the canvas size is taken, the grid is replaced
\* by a new map and #initialiser runs again
Resize ==
  /\ pc = "idle"
  /\ canvas.resizes < MaxResizes
  /\ \E size \in ResizeSizes :
       /\ canvas' = [width |-> size[1], height |-> size[2], resizes |-> canvas.resizes + 1]
       /\ cells' = [c \in initialiseGrid(size[1], size[2]) |-> Honeycomb]
       /\ bees' = initialiserBees(numberOfBees(size[1], size[2], beeSize, beeDensityRatioPct))
  /\ UNCHANGED <<honeyCombClusters, frameCounter, lastClusterSpawnFrame, pc,
                 ringAtActivation, released, capComputed>>
  /\ UNCHANGED <<runVars, beeVars, swarmVars>>
  /\ UNCHANGED <<lookup, click, holeRun, countRun, loop, dwell, mount, rain, typeRun, gridRun>>

NextResize == ResizeClickAt \/ Resize

SpecResize == InitResize /\ [][NextResize]_vars

-----------------------------------------------------------------------------
(* The bee count of #initialiser on its own, for a canvas, a bee size and a  *)
(* density ratio of its own.                                                 *)

CountWidths == {0 - 10, 0, 90, 1920}
CountHeights == {0, 52, 1080}
CountSizes == {0, 15, 30}
CountRatioPcts == {0 - 100, 0, 1, 200, 5000}

InitCount ==
  /\ InitHive
  /\ timing = NoTiming
  /\ capRun = NoCapRun
  /\ NoBees
  /\ lookup = NoLookup
  /\ bees = <<>>
  /\ click = NoClick
  /\ holeRun = NoHoles
  /\ canvas = NoCanvas
  /\ loop = NoLoop
  /\ dwell = NoDwell
  /\ mount = NoMount
  /\ gridRun = NoGrids
  /\ rain = NoRain
  /\ typeRun = NoTypes
  /\ \E w \in CountWidths, h \in CountHeights, size \in CountSizes, ratio \in CountRatioPcts :
       countRun = [stage |-> "given", width |-> w, height |-> h, size |-> size,
                   ratioPct |-> ratio, numberOfBees |-> 0]

\* the count of one run of #initialiser
CountBees ==
  /\ countRun.stage = "given"
  /\ countRun' = [countRun EXCEPT
                    !.stage = "counted",
                    !.numberOfBees = numberOfBees(countRun.width, countRun.height,
                                                  countRun.size, countRun.ratioPct)]
  /\ UNCHANGED <<hiveVars, runVars, beeVars, swarmVars>>
  /\ UNCHANGED <<lookup, bees, click, holeRun, canvas, loop, dwell, mount, rain, typeRun, gridRun>>

NextCount == CountBees

SpecCount == InitCount /\ [][NextCount]_vars

-----------------------------------------------------------------------------
(* The frame loop of startAnimation.  Times are in milliseconds; the timer   *)
(* is kept multiplied by fps, so that nextFrame = 1000 / fps is 1000 of its  *)
(* units and every value is an integer.  Of Hive.draw this specification     *)
(* follows the frame counter only.                                           *)

MaxCallbacks == 3     \* frame callbacks followed
maxDeltaTime == 100   \* animate: if (deltaTime > 100) deltaTime = 100
nextFrameScaled == 1000

LoopFps == {10, 30, 60}
LoopStarts == {5, 5000}                       \* page time of the first callback
LoopDeltas == {1, 16, 17, 34, 100, 101, 250}  \* time between two callbacks

\* animate without the limit on deltaTime
clampDeltaNever(deltaTime) == deltaTime

\* animate: if (deltaTime > 100) deltaTime = 100
clampDelta(deltaTime) == IF deltaTime > maxDeltaTime THEN maxDeltaTime ELSE deltaTime

\* animate: while (timer >= nextFrame) { hive.draw(ctx); timer -= nextFrame; }
RECURSIVE fixedStep(_, _)
fixedStep(timer, ticks) ==
  IF timer >= nextFrameScaled THEN fixedStep(timer - nextFrameScaled, ticks + 1)
  ELSE [timer |-> timer, ticks |-> ticks]

\* animate(timeStamp) on the loop variables l of startAnimation
animate(l, timeStamp) ==
  LET last == IF l.lastTime = 0 THEN timeStamp ELSE l.lastTime
      ran == fixedStep(l.timer + clampDelta(timeStamp - last) * l.fps, 0)
  IN [l EXCEPT !.lastTime = timeStamp, !.timer = ran.timer, !.ticks = ran.ticks]

InitAnimate ==
  /\ InitHive
  /\ timing = NoTiming
  /\ capRun = NoCapRun
  /\ NoBees
  /\ lookup = NoLookup
  /\ bees = <<>>
  /\ click = NoClick
  /\ holeRun = NoHoles
  /\ canvas = NoCanvas
  /\ countRun = NoCount
  /\ dwell = NoDwell
  /\ mount = NoMount
  /\ gridRun = NoGrids
  /\ rain = NoRain
  /\ typeRun = NoTypes
  /\ \E f \in LoopFps :
       loop = [stage |-> "created", fps |-> f, lastTime |-> 0, timer |-> 0, ticks |-> 0,
               timeStamp |-> 0, callbacks |-> 0, d |-> 0, carry |-> 0, before |-> 0]

\* startAnimation: animate(0)
StartAnimation ==
  /\ loop.stage = "created"
  /\ LET l == animate(loop, 0)
     IN /\ loop' = [l EXCEPT !.stage = "started"]
        /\ frameCounter' = frameCounter + l.ticks
  /\ UNCHANGED <<cells, honeyCombClusters, lastClusterSpawnFrame, pc,
                 ringAtActivation, released, capComputed>>
  /\ UNCHANGED <<runVars, beeVars, swarmVars>>
  /\ UNCHANGED <<lookup, bees, click, holeRun, canvas, countRun, dwell, mount, rain, typeRun, gridRun>>

\* a callback of requestAnimationFrame(animate); d, carry and before record
\* the time since the call before it, the timer and the frame counter it found
FrameCallback ==
  /\ loop.stage \in {"started", "called"}
  /\ loop.callbacks < MaxCallbacks
  /\ \E dt \in (IF loop.stage = "started" THEN LoopStarts ELSE LoopDeltas) :
       LET l == animate(loop, loop.timeStamp + dt)
       IN /\ loop' = [l EXCEPT !.stage = "called", !.timeStamp = loop.timeStamp + dt,
                               !.callbacks = loop.callbacks + 1, !.d = dt,
                               !.carry = loop.timer, !.before = frameCounter]
          /\ frameCounter' = frameCounter + l.ticks
  /\ UNCHANGED <<cells, honeyCombClusters, lastClusterSpawnFrame, pc,
                 ringAtActivation, released, capComputed>>
  /\ UNCHANGED <<runVars, beeVars, swarmVars>>
  /\ UNCHANGED <<lookup, bees, click, holeRun, canvas, countRun, dwell, mount, rain, typeRun, gridRun>>

NextAnimate == StartAnimation \/ FrameCallback

SpecAnimate == InitAnimate /\ [][NextAnimate]_vars

-----------------------------------------------------------------------------
(* One bee in the air followed tick by tick, with the dwell lock and the     *)
(* cooldown it was last given and the ticks that have passed since.  The     *)
(* environment says each tick what SpecBee lets it say.                      *)

MaxDwellTicks == 5

\* the bees followed: in flight and hovering on the first layer, without locks
DwellBees ==
  {[Bee(0, 0) EXCEPT !.animation = a, !.z = LayerOneZ, !.onGround = FALSE,
                     !.hoverRadius = hoverRadiusFor(LayerOneZ), !.stateDuration = Frames(240)] :
     a \in {"fly", "hover"}}

\* a lock of n with the ticks since it was given, after one more part of a
\* tick that left the counter at now where was is what the decrements alone
\* would leave: a larger value is a new lock
lockAfter(held, was, now) ==
  IF now > was THEN [n |-> now, ticks |-> 0] ELSE held

InitDwell ==
  /\ InitHive
  /\ timing = NoTiming
  /\ capRun = NoCapRun
  /\ call = NoCall
  /\ beePc = "idle"
  /\ printed = FALSE
  /\ NoSwarm
  /\ lookup = NoLookup
  /\ bees = <<>>
  /\ click = NoClick
  /\ holeRun = NoHoles
  /\ canvas = NoCanvas
  /\ countRun = NoCount
  /\ loop = NoLoop
  /\ mount = NoMount
  /\ gridRun = NoGrids
  /\ rain = NoRain
  /\ typeRun = NoTypes
  /\ bee \in DwellBees
  /\ dwell = [stage |-> "tracking", tick |-> 0, changed |-> FALSE,
              lock |-> [n |-> 0, ticks |-> 0], cooldown |-> [n |-> 0, ticks |-> 0],
              lockFound |-> [n |-> 0, ticks |-> 0], cooldownFound |-> [n |-> 0, ticks |-> 0]]

\* Hive.draw for the bee: the lock decrement, Bee.draw, #addFootprintsForBees,
\* the update pass and the proximity loop.  lockFound and cooldownFound are
\* the locks the proximity loop found in force, changed says that it changed
\* the state of the bee
DwellTick ==
  /\ dwell.tick < MaxDwellTicks
  /\ \E r \in RandomR, rt \in RandomT, dusty \in DustKinds, picked \in BOOLEAN,
        far \in BOOLEAN, over \in BOOLEAN, near \in BOOLEAN :
       LET counted == tickCounters(decrementLocks(bee))
           updated == landOverCluster(
                        considerTakeoffToDistantTarget(
                          assignTarget(
                            addFootprintsForBee(updateBee(decrementLocks(bee), r, rt), dusty),
                            picked),
                          far, rt),
                        over, rt)
           resolved == resolveProximity(updated, near, over, rt, rt)
           lockFound == lockAfter([dwell.lock EXCEPT !.ticks = @ + 1],
                                  counted.minStateFrames, updated.minStateFrames)
           cooldownFound == lockAfter([dwell.cooldown EXCEPT !.ticks = @ + 1],
                                      counted.proximityCooldown, updated.proximityCooldown)
       IN /\ bee' = resolved
          /\ dwell' = [dwell EXCEPT
                         !.tick = @ + 1,
                         !.changed = resolved.animation # updated.animation,
                         !.lockFound = lockFound,
                         !.cooldownFound = cooldownFound,
                         !.lock = lockAfter(lockFound, updated.minStateFrames,
                                            resolved.minStateFrames),
                         !.cooldown = lockAfter(cooldownFound, updated.proximityCooldown,
                                                resolved.proximityCooldown)]
  /\ UNCHANGED <<hiveVars, runVars, swarmVars, call, beePc, printed>>
  /\ UNCHANGED <<lookup, bees, click, holeRun, canvas, countRun, loop, mount, rain, typeRun, gridRun>>

NextDwell == DwellTick

SpecDwell == InitDwell /\ [][NextDwell]_vars

-----------------------------------------------------------------------------
(* The Bees component after its mount with the default props: the flags of   *)
(* its state, the idle timer and the effects that follow every change of     *)
(* state.  Time passes in steps of SecondsPerStep seconds.  The page shake   *)
(* asks for the fade-out as the close button does and is not told apart.     *)

idleDelaySec == 60      \* props.idleDelaySec, default
SecondsPerStep == 20
MaxMountSteps == 6      \* steps of time followed

\* setTimeout(..., idleDelaySec * 1000), in steps
idleDelaySteps == idleDelaySec \div SecondsPerStep

\* the last run of the idle timer effect returned cleanUp and listens for
\* user activity
idleTimerListens(m) ==
  ~m.isCanvasActiveInDom /\ idleDelaySec # 0 /\ m.playFlag

\* cleanUp, run before the effect runs again when its last run returned it:
\* the timer of idleTimeoutRef is cleared
idleTimerCleanUp(m, n) ==
  IF idleTimerListens(m) THEN [n EXCEPT !.timer = <<>>] ELSE n

\* the idle timer effect, run when isCanvasActiveInDom or playFlag changed:
\* the timer of idleTimeoutRef is cleared while the canvas is active, with a
\* delay of 0 or when not playing; otherwise a new timer is assigned to
\* idleTimeoutRef, and a timer still pending there is left to run
idleTimerEffect(m) ==
  IF m.isCanvasActiveInDom \/ idleDelaySec = 0 \/ ~m.playFlag
    THEN [m EXCEPT !.timer = <<>>]
    ELSE [m EXCEPT !.timer = <<idleDelaySteps>>,
                   !.leaked = @ \cup {m.timer[i] : i \in 1..Len(m.timer)}]

\* the effect on playFlag: a fade-out is requested when it is false
playFlagEffect(m) ==
  [m EXCEPT !.isFadingOut = IF m.playFlag THEN @ ELSE TRUE]

\* the run/pause controller: startAnimation when the canvas is active, playing
\* and not paused; the frame loop is cancelled otherwise
runPauseController(m) ==
  [m EXCEPT !.isRunning = m.isCanvasActiveInDom /\ m.playFlag /\ ~m.pausedFlag]

\* the effects after a render that changed the state from m to n
effectsAfter(m, n) ==
  runPauseController(
    IF n.playFlag # m.playFlag
      THEN playFlagEffect(idleTimerEffect(idleTimerCleanUp(m, n)))
    ELSE IF n.isCanvasActiveInDom # m.isCanvasActiveInDom
      THEN idleTimerEffect(idleTimerCleanUp(m, n))
    ELSE n)

\* useState initial values, then the effects of the mount
mountedComponent ==
  runPauseController(playFlagEffect(idleTimerEffect(
    [stage |-> "mounted", playFlag |-> TRUE, pausedFlag |-> FALSE,
     isCanvasActiveInDom |-> FALSE, isFadingOut |-> TRUE, isRunning |-> FALSE,
     timer |-> <<>>, leaked |-> {}, elapsed |-> 0, touched |-> FALSE,
     stopped |-> FALSE])))

InitMount ==
  /\ InitHive
  /\ timing = NoTiming
  /\ capRun = NoCapRun
  /\ NoBees
  /\ lookup = NoLookup
  /\ bees = <<>>
  /\ click = NoClick
  /\ holeRun = NoHoles
  /\ canvas = NoCanvas
  /\ countRun = NoCount
  /\ loop = NoLoop
  /\ dwell = NoDwell
  /\ mount = mountedComponent
  /\ gridRun = NoGrids
  /\ rain = NoRain
  /\ typeRun = NoTypes

MountUnchanged ==
  /\ UNCHANGED <<hiveVars, runVars, beeVars, swarmVars>>
  /\ UNCHANGED <<lookup, bees, click, holeRun, canvas, countRun, loop, dwell, rain, typeRun, gridRun>>

\* a step of time without input; a pending timer fires when it runs out,
\* whether idleTimeoutRef still holds it or not: handleIdleTimeout (and the
\* callback of play()) sets isCanvasActiveInDom and clears isFadingOut
TimePasses ==
  /\ mount.elapsed < MaxMountSteps
  /\ LET fires == mount.timer = <<1>> \/ 1 \in mount.leaked
         m == [mount EXCEPT !.elapsed = @ + 1,
                            !.timer = IF @ = <<>> \/ @ = <<1>> THEN <<>> ELSE <<@[1] - 1>>,
                            !.leaked = {t - 1 : t \in @ \ {1}}]
     IN mount' = IF fires
                   THEN effectsAfter(m, [m EXCEPT !.isCanvasActiveInDom = TRUE,
                                                  !.isFadingOut = FALSE])
                   ELSE m
  /\ MountUnchanged

\* scroll, click, touchstart or keydown while the idle timer listens: resetTimer
UserActivity ==
  /\ ~mount.isCanvasActiveInDom /\ idleDelaySec # 0 /\ mount.playFlag
  /\ mount' = [mount EXCEPT !.timer = <<idleDelaySteps>>]
  /\ MountUnchanged

\* BeesHandle.play(): the timer of idleTimeoutRef is replaced in the call, the
\* effects run after the render that follows
Play ==
  /\ mount' = effectsAfter(mount, [mount EXCEPT !.playFlag = TRUE, !.pausedFlag = FALSE,
                                                !.timer = <<idleDelaySteps>>,
                                                !.touched = TRUE, !.stopped = FALSE])
  /\ MountUnchanged

\* BeesHandle.playImmediate()
PlayImmediate ==
  /\ mount' = effectsAfter(mount, [mount EXCEPT !.playFlag = TRUE, !.pausedFlag = FALSE,
                                                !.isCanvasActiveInDom = TRUE,
                                                !.isFadingOut = FALSE, !.touched = TRUE,
                                                !.stopped = FALSE])
  /\ MountUnchanged

\* BeesHandle.pause()
Pause ==
  /\ mount' = effectsAfter(mount, [mount EXCEPT !.pausedFlag = TRUE, !.touched = TRUE])
  /\ MountUnchanged

\* BeesHandle.stop()
Stop ==
  /\ mount' = effectsAfter(mount, [mount EXCEPT !.playFlag = FALSE, !.isFadingOut = TRUE,
                                                !.touched = TRUE, !.stopped = TRUE])
  /\ MountUnchanged

\* handleCloseClick, the close button of the active canvas
HandleCloseClick ==
  /\ mount.isCanvasActiveInDom
  /\ mount' = effectsAfter(mount, [mount EXCEPT !.isFadingOut = TRUE, !.touched = TRUE])
  /\ MountUnchanged

\* handleFadeOutEnd, at the end of the opacity transition of the active canvas
HandleFadeOutEnd ==
  /\ mount.isCanvasActiveInDom
  /\ mount.isFadingOut
  /\ mount' = effectsAfter(mount, [mount EXCEPT !.isRunning = FALSE,
                                                !.isCanvasActiveInDom = FALSE])
  /\ MountUnchanged

NextMount ==
  \/ TimePasses
  \/ UserActivity
  \/ Play
  \/ PlayImmediate
  \/ Pause
  \/ Stop
  \/ HandleCloseClick
  \/ HandleFadeOutEnd

SpecMount == InitMount /\ [][NextMount]_vars

-----------------------------------------------------------------------------
(* DigitalRain: one Column of the effect, drawn frame after frame.  A symbol *)
(* is its text and the fixed character the map of the static messages gave   *)
(* it, <<>> when it has none.                                                *)

RainRows == 3                   \* symbols of the column: canvasHeight / fontSize + 1
MaxRainCell == 5                \* the column is sent back to the top at this cell at the latest
changeCharacterFrequency == 4   \* DEFAULT_OPTIONS.changeCharacterFrequency

RainIndex == 0..(RainRows - 1)

\* the characters Math.random picks from CHAR_POOL
CharPool == {"A", "x"}

\* fixedCharacterMap for the column: no message, a character off the pool in
\* row 1, a character of the pool in row 0 and one off it in row 2
FixedCharacterMaps ==
  {[i \in RainIndex |-> <<>>],
   [i \in RainIndex |-> IF i = 1 THEN <<"H">> ELSE <<>>],
   [i \in RainIndex |-> IF i = 0 THEN <<"A">> ELSE IF i = 2 THEN <<"H">> ELSE <<>>]}

\* Symbol.draw, the text it leaves: the fixed character is restored, then a
\* character ch of the pool is taken when the condition of the draw holds
symbolText(sym, y, currentCell, changeCharacter, ch) ==
  IF (sym.fixedChar = <<>> /\ currentCell = y)
       \/ (changeCharacter /\ currentCell % changeCharacterFrequency = 0)
    THEN ch
  ELSE IF sym.fixedChar # <<>> /\ sym.text # sym.fixedChar[1] THEN sym.fixedChar[1]
  ELSE sym.text

\* Column.draw, the loop over the symbols; chars[i] is the character the draw
\* of symbol i would take
columnSymbols(col, chars) ==
  [i \in RainIndex |->
     [col.symbols[i] EXCEPT
        !.text = symbolText(col.symbols[i], i, col.currentCell, i \in col.randomCells, chars[i])]]

InitRain ==
  /\ InitHive
  /\ timing = NoTiming
  /\ capRun = NoCapRun
  /\ NoBees
  /\ lookup = NoLookup
  /\ bees = <<>>
  /\ click = NoClick
  /\ holeRun = NoHoles
  /\ canvas = NoCanvas
  /\ countRun = NoCount
  /\ loop = NoLoop
  /\ dwell = NoDwell
  /\ mount = NoMount
  /\ gridRun = NoGrids
  /\ typeRun = NoTypes
  /\ \E fixed \in FixedCharacterMaps :
       rain = [stage |-> "column", currentCell |-> 0, randomCells |-> {}, draws |-> 0,
               symbols |-> [i \in RainIndex |-> [text |-> "", fixedChar |-> fixed[i]]],
               drawnAt |-> 0, drawnRandom |-> {}]

RainUnchanged ==
  /\ UNCHANGED <<hiveVars, runVars, beeVars, swarmVars>>
  /\ UNCHANGED <<lookup, bees, click, holeRun, canvas, countRun, loop, dwell, mount, typeRun, gridRun>>

\* Column.draw with the column going on to its next cell
ColumnDrawAdvance ==
  /\ rain.stage = "column"
  /\ rain.currentCell < MaxRainCell
  /\ \E chars \in [RainIndex -> CharPool] :
       rain' = [rain EXCEPT !.symbols = columnSymbols(rain, chars),
                            !.currentCell = @ + 1,
                            !.draws = 1,
                            !.drawnAt = rain.currentCell,
                            !.drawnRandom = rain.randomCells]
  /\ RainUnchanged

\* Column.draw with the column past the canvas and the draw of Math.random
\* above variabilityOfStart: back to cell 0 with new random cells
ColumnDrawReset ==
  /\ rain.stage = "column"
  /\ rain.currentCell > RainRows - 1
  /\ \E chars \in [RainIndex -> CharPool], picks \in SUBSET RainIndex :
       rain' = [rain EXCEPT !.symbols = columnSymbols(rain, chars),
                            !.currentCell = 0,
                            !.randomCells = picks,
                            !.draws = 1,
                            !.drawnAt = rain.currentCell,
                            !.drawnRandom = rain.randomCells]
  /\ RainUnchanged

NextRain == ColumnDrawAdvance \/ ColumnDrawReset

SpecRain == InitRain /\ [][NextRain]_vars

-----------------------------------------------------------------------------
(* The build of a cluster on its own, from the grown region on: holes,       *)
(* outline, edge depths, ring distances and content types.  The region is    *)
(* what the growth leaves around a seed when it takes every neighbour up to  *)
(* a ring: on a grid this small the larger regions reach the rim of the      *)
(* grid, where a cell has fewer neighbours.                                  *)

MaxGrowRing == 5

\* the draws of #setCellType, one for each of its branches
TypeDraws == {0, 65, 75, 85, 95}

\* the seeds tried: the cells of two columns of the grid
TypeSeeds == {c \in Cells : c[2] \in {0, 3}}

\* the cells within k rings of a seed
GrownBall(seed, k) == {c \in Cells : axialDistance(seed, c) <= k}

InitTypes ==
  /\ InitHive
  /\ timing = NoTiming
  /\ capRun = NoCapRun
  /\ NoBees
  /\ lookup = NoLookup
  /\ bees = <<>>
  /\ click = NoClick
  /\ holeRun = NoHoles
  /\ canvas = NoCanvas
  /\ countRun = NoCount
  /\ loop = NoLoop
  /\ dwell = NoDwell
  /\ mount = NoMount
  /\ gridRun = NoGrids
  /\ rain = NoRain
  /\ \E seed \in TypeSeeds, k \in 0..MaxGrowRing, u \in TypeDraws :
       typeRun = [stage |-> "grown", centreCell |-> seed, u |-> u,
                  cluster |-> GrownBall(seed, k),
                  grid |-> Activate([c \in Cells |-> Honeycomb], GrownBall(seed, k))]

\* #initialiser after #growCluster, up to #setCellType
BuildTypes ==
  /\ typeRun.stage = "grown"
  /\ \E g \in {buildAround(typeRun.centreCell,
                           [grid |-> typeRun.grid, cluster |-> typeRun.cluster])} :
       typeRun' = [typeRun EXCEPT !.stage = "typed",
                                  !.cluster = g.cluster,
                                  !.grid = setCellType(g, typeRun.centreCell, typeRun.u)]
  /\ UNCHANGED <<hiveVars, runVars, beeVars, swarmVars>>
  /\ UNCHANGED <<lookup, bees, click, holeRun, canvas, countRun, loop, dwell, mount, rain, gridRun>>

NextTypes == BuildTypes

SpecTypes == InitTypes /\ [][NextTypes]_vars

-----------------------------------------------------------------------------
(* The nearest-cell lookup on its own: one lookup of a point of the page on  *)
(* the grid as #initialiseGrid leaves it.                                    *)

MaxLookup == 6

\* the points looked up, in half pixels: a lattice over the canvas and its
\* margin, the centre of every cell, and points far from every cell
LookupPoints ==
  ({15 * i : i \in (0 - MaxLookup)..(3 * MaxLookup)}
      \X {13 * j : j \in (0 - MaxLookup)..(3 * MaxLookup)})
    \cup {<<cellX(c), cellY(c)>> : c \in Cells}
    \cup {<<0 - 300, 0>>, <<600, 600>>}

InitNearest ==
  /\ InitHive
  /\ timing = NoTiming
  /\ capRun = NoCapRun
  /\ NoBees
  /\ bees = <<>>
  /\ click = NoClick
  /\ holeRun = NoHoles
  /\ canvas = NoCanvas
  /\ countRun = NoCount
  /\ loop = NoLoop
  /\ dwell = NoDwell
  /\ mount = NoMount
  /\ gridRun = NoGrids
  /\ rain = NoRain
  /\ typeRun = NoTypes
  /\ \E p \in LookupPoints : lookup = [stage |-> "point", x |-> p[1], y |-> p[2]]

\* one call of #getNearestCellToPoint
NearestLookup ==
  /\ lookup.stage = "point"
  /\ lookup' = [stage |-> "found", x |-> lookup.x, y |-> lookup.y,
                found |-> getNearestCellToPointFast(cells, lookup.x, lookup.y)]
  /\ UNCHANGED <<hiveVars, runVars, beeVars, swarmVars>>
  /\ UNCHANGED <<bees, click, holeRun, canvas, countRun, loop, dwell, mount, rain, typeRun, gridRun>>

NextNearest == NearestLookup

SpecNearest == InitNearest /\ [][NextNearest]_vars

-----------------------------------------------------------------------------
(* Properties *)

Pool == 1..Len(honeyCombClusters)
ActiveClusters == {i \in Pool : honeyCombClusters[i].active}
Owners(c) == {i \in ActiveClusters : c \in honeyCombClusters[i].cluster}

IsDefaultCell(cell) ==
  /\ ~cell.active
  /\ cell.type = "empty"
  /\ cell.border = 0
  /\ cell.edge = 0
  /\ cell.distanceFromCentrePiece = 0

\* C1: every active cell is in the cell set of exactly one active cluster, so a
\* cell one cluster released and another activated is no longer the first one's.
ExclusiveOwnership ==
  \A c \in Cells : cells[c].active => Cardinality(Owners(c)) = 1

\* C4: opacity is 0 when a cell's active flag becomes false, and no step changes
\* the opacity of a cell that stays inactive.
InactiveOpacityStaysZero ==
  [][\A c \in Cells :
       /\ (cells[c].active /\ ~cells'[c].active) => cells'[c].opacity = 0
       /\ (~cells[c].active /\ ~cells'[c].active) => cells'[c].opacity = cells[c].opacity]_vars

ClusterGrownBesideActiveCells ==
  \E i \in ActiveClusters :
     /\ honeyCombClusters[i].animationFrameCounter = 0
     /\ \A c \in honeyCombClusters[i].cluster : cells[c].active /\ cells[c].opacity = 0
     /\ \E n \in NeighbourSet(honeyCombClusters[i].centreCell) :
          cells[n].active /\ n \notin honeyCombClusters[i].cluster

\* C3: a step that activates a cluster gives it only cells that were inactive
\* before the step, and leaves each of them active with opacity 0.
GrowthTakesOnlyInactiveCells ==
  [][\A i \in Activated(honeyCombClusters, honeyCombClusters') :
       \A c \in honeyCombClusters'[i].cluster :
          /\ ~cells[c].active
          /\ cells'[c].active
          /\ cells'[c].opacity = 0]_vars

\* C5: the seed cell of an active cluster with frame counter f has opacity f/F up
\* to f = F, 1 up to F + V, 1 - (f - F - V)/O after that, and is reset to inactive
\* from the first frame at which that value is <= 0 (f = F + V + O).
SeedOpacityTrace ==
  \A i \in ActiveClusters :
    LET cl == honeyCombClusters[i]
        seed == cells[cl.centreCell]
        f == cl.animationFrameCounter
        V == cl.visibleTime
    IN /\ f <= fadeInTime => seed.active /\ seed.opacity = f * fadeOutTime
       /\ (f > fadeInTime /\ f <= fadeInTime + V) => seed.active /\ seed.opacity = OpacityOne
       /\ (f > fadeInTime + V /\ f < fadeInTime + V + fadeOutTime)
            => seed.active /\ seed.opacity = OpacityOne - (f - fadeInTime - V) * fadeInTime
       /\ f >= fadeInTime + V + fadeOutTime => ~seed.active /\ seed.opacity = 0

\* C6: within one lifecycle a cell with a larger ringDistance + borderRing is
\* released no later than a cell with a smaller one; the seed goes last.
ReleasedOutsideIn ==
  \A i \in ActiveClusters :
    \A c1, c2 \in honeyCombClusters[i].cluster :
       (ringAtActivation[i][c1] > ringAtActivation[i][c2] /\ c2 \in released[i])
          => c1 \in released[i]

\* C8: right after an activation (frame counter still 0) maximumDistanceAndBorder
\* is the largest ringDistance + borderRing over the cells the cluster owns.
MaxRingIsLargestOwned ==
  \A i \in ActiveClusters :
    honeyCombClusters[i].animationFrameCounter = 0
      => honeyCombClusters[i].maximumDistanceAndBorder
           = SetMax({cells[c].distanceFromCentrePiece + cells[c].border :
                        c \in honeyCombClusters[i].cluster})

\* C9: a pool entry goes from inactive to active only with cooldownCounter <= 0.
ReseedOnlyAfterCooldown ==
  [][\A i \in Pool :
       (~honeyCombClusters[i].active /\ honeyCombClusters'[i].active)
          => honeyCombClusters[i].cooldownCounter <= 0]_vars

\* C10: over the cluster pass of a tick every positive cooldownCounter drops by
\* exactly 1, whether its cluster is active or not.
CooldownDecrementsEveryTick ==
  [][(pc = "update" /\ pc' = "idle") =>
       \A i \in Pool :
          honeyCombClusters[i].cooldownCounter > 0
            => honeyCombClusters'[i].cooldownCounter = honeyCombClusters[i].cooldownCounter - 1]_vars

\* C7: the derived maximumLifeTime is at least
\* fadeIn + fadeOut + 2 * delay * maximumDistanceAndBorder.
LifetimeCoversOuterRing ==
  timing.stage = "ready"
    => timing.maximumLifeTime
         >= fadeInTime + fadeOutTime + 2 * delayTime * timing.maximumDistanceAndBorder

\* C11: the cap a tick computes is never smaller than the cap the tick before
\* computed, whatever was spawned or expired in between.
CapNeverDrops ==
  [][capComputed' >= capComputed]_vars

\* C12: for every configuration the dynamic cap is an integer from 0 to SAFETY_CAP.
CapWithinSafetyCeiling ==
  capRun.stage = "done" => capRun.cap \in {<<n>> : n \in 0..SAFETY_CAP}

\* a call of enterState named the state the bee was already in, gave a new
\* duration, and the bee had a counter, a cooldown and a hover circle to lose
SameStateEntryWithDuration ==
  /\ call.stage = "done"
  /\ call.next = call.before.animation
  /\ call.before.animation = "hover"
  /\ call.before.stateCounter > 0
  /\ call.before.proximityCooldown > 0
  /\ call.before.hoverRadius > 0
  /\ call.duration # <<>>
  /\ call.after.stateDuration # call.before.stateDuration

\* C13: enterState(s, d) on a bee already in state s leaves the counter, the
\* cooldown, the hover anchor, radius, direction and phase and every other
\* field as they were; only stateDuration may change, to d, when d is given.
SameStateEntryOnlySetsDuration ==
  (call.stage = "done" /\ call.next = call.before.animation) =>
     call.after = [call.before EXCEPT
                     !.stateDuration = IF call.duration = <<>> THEN @ ELSE call.duration[1]]

\* C14: every change of the animation state, by any path, leaves stateCounter
\* at 0 right after the change, the touchdown from land to walk included.
AnimationChangeResetsCounter ==
  [][bee'.animation # bee.animation => bee'.stateCounter = 0]_vars

\* the frame's update left the bee climbing above the ground threshold
AirborneAfterUpdate ==
  /\ beePc = "passes"
  /\ bee.animation = "takeoff"
  /\ bee.z >= GroundZ

\* C15: a bee whose z is at least 0.3 after its update has onGround false and
\* gets no footprint appended in that frame.
AirborneLeavesNoFootprint ==
  bee.z >= GroundZ => (~bee.onGround /\ ~printed)

\* the frame's update of the bee: from between two frames to after the footprints
UpdateStep == beePc = "idle" /\ beePc' = "passes"

\* an idle bee without a target has one frame left before its duration is reached
IdleAtLastFrame ==
  /\ beePc = "idle"
  /\ bee.animation = "idle"
  /\ ~bee.hasTarget
  /\ bee.stateCounter >= 1
  /\ bee.stateCounter + 1 = bee.stateDuration

\* C17: a bee without a target that is idle leaves idle by its own update no
\* later than stateDuration + 1 frames after entering it, and the state it
\* enters is walk, flutter or turn.
IdleLeavesInTime ==
  [][(UpdateStep /\ bee.animation = "idle" /\ ~bee.hasTarget) =>
        IF bee'.animation = "idle"
          THEN bee'.stateCounter <= bee'.stateDuration
          ELSE bee'.animation \in {"walk", "flutter", "turn"}]_vars

\* the states the next update of the bee can leave it in, over every draw
NextAnimations ==
  {updateBee(decrementLocks(bee), r, rt).animation : r \in 0..999, rt \in RandomT}

\* C18: once the duration of idle expires, each of idle to walk, idle to
\* flutter and idle to turn is possible.
IdleExpiryReachesEachSuccessor ==
  (/\ beePc = "idle"
   /\ bee.animation = "idle"
   /\ bee.stateCounter >= 1
   /\ bee.stateCounter + 1 >= bee.stateDuration)
    => {"walk", "flutter", "turn"} \subseteq NextAnimations

\* C19: when the duration of hover expires the bee goes to fly or to land, and
\* both are possible.
HoverExpiryReachesEachSuccessor ==
  (/\ beePc = "idle"
   /\ bee.animation = "hover"
   /\ bee.stateCounter + 1 >= (IF bee.stateDuration # 0 THEN bee.stateDuration ELSE Frames(120)))
    => NextAnimations = {"fly", "land"}

\* two bees dropped a print in the same frame into a full buffer
TwoPrintsIntoFullBuffer ==
  /\ Len(trails) = MAX_TRAILS
  /\ trails[MAX_TRAILS].age = 0
  /\ trails[MAX_TRAILS - 1].age = 0
  /\ trails[1].age > 0

\* C16: after any number of frames, with any number of bees dropping prints in
\* the same frame, the footprint buffer holds at most the configured maximum.
TrailsWithinCap == Len(trails) <= MAX_TRAILS

\* the two bees of a resolved pass met on the ground: both under the ground
\* threshold, unlocked, in ground states, within the threshold of each other
\* and each facing the other
GroundedFacingPair ==
  /\ prox.stage = "resolved"
  /\ \A i \in 1..2 :
        /\ prox.before[i].z < GroundZ
        /\ prox.before[i].minStateFrames = 0
        /\ prox.before[i].proximityCooldown = 0
        /\ prox.before[i].animation \in {"idle", "blocked", "walk", "turn", "flutter"}
  /\ withinThreshold(prox.before[1], prox.before[2], 0)
  /\ isFacingTarget(prox.before[1], prox.before[2])
  /\ isFacingTarget(prox.before[2], prox.before[1])

\* C20 as stated: two grounded, unlocked bees within the threshold that face
\* each other, in whatever ground states, leave a proximity pass with at least
\* one of them blocked.
FacingPairLeavesOneBlocked ==
  GroundedFacingPair => \E i \in 1..2 : prox.after[i].animation = "blocked"

\* the pair met across two bins, one bee walking and the other turning
FacingPairAcrossBins ==
  /\ GroundedFacingPair
  /\ binOf(prox.before[1]) # binOf(prox.before[2])
  /\ prox.before[1].animation = "turn"
  /\ prox.before[2].animation = "walk"

\* C20, amended: the same, unless both bees are turning; a turning bee is
\* passed over by the loop.
FacingPairNotBothTurningLeavesOneBlocked ==
  (GroundedFacingPair /\ \E i \in 1..2 : prox.before[i].animation # "turn")
    => \E i \in 1..2 : prox.after[i].animation = "blocked"

\* the lookup was made at the centre of a cell of the grid with a negative q
LookupAtCentreOfCell ==
  /\ lookup.stage = "found"
  /\ \E c \in Cells : c[1] < 0 /\ lookup.x = cellX(c) /\ lookup.y = cellY(c)

\* C23: the nearest-cell lookup at the canvas position of a cell of the grid
\* returns that cell, at distance 0
LookupAtCentreReturnsCell ==
  lookup.stage = "found" =>
    \A c \in Cells :
       lookup.x = cellX(c) /\ lookup.y = cellY(c) =>
         lookup.found = [cell |-> <<c>>, dist |-> <<0>>]

\* the slots the cap left free when the last click came
ClickHeadroom ==
  getClusterCap(click.pool, frameCounter) - getActiveClusterCount(click.pool)

\* the last click came down on an active cell while the cap had room for a
\* cluster, and scared a bee
ClickOnActiveCellWithHeadroom ==
  /\ click.stage = "done"
  /\ click.found # <<>>
  /\ click.cells[click.found[1]].active
  /\ ClickHeadroom > 0
  /\ bees # click.bees

\* C22: a click at a point whose nearest cell is active leaves the cells, the
\* cluster pool and lastClusterSpawnFrame as they were
ClickOnActiveCellLeavesClusters ==
  (click.stage = "done" /\ click.found # <<>> /\ click.cells[click.found[1]].active) =>
     /\ cells = click.cells
     /\ honeyCombClusters = click.pool
     /\ lastClusterSpawnFrame = click.last

\* the last click came down further than four columns from every cell
ClickFarFromEveryCell ==
  /\ click.stage = "done"
  /\ \A c \in Cells :
        hypotSquared(c, 2 * click.x, 2 * click.y) > (4 * colStep) * (4 * colStep)

\* a click far from every cell came while the cap had room for a cluster and
\* some cell was active
ClickMissesEveryCell ==
  /\ ClickFarFromEveryCell
  /\ ClickHeadroom > 0
  /\ \E c \in Cells : cells[c].active

\* C28: a lookup far from every cell finds no cell, and then the click spawns
\* nothing, the point is not over an active cluster and has no dust under it
MissedLookupTouchesNothing ==
  ClickFarFromEveryCell =>
     /\ click.found = <<>>
     /\ cells = click.cells
     /\ honeyCombClusters = click.pool
     /\ lastClusterSpawnFrame = click.last
     /\ ~isOverActiveCluster(cells, 2 * click.x, 2 * click.y)
     /\ dustUnder(cells, 2 * click.x, 2 * click.y) = "none"

\* the square of the distance of bee i from the last click, as the click found it
ClickDistanceSquared(i) ==
  (click.bees[i].x - click.x) * (click.bees[i].x - click.x)
    + (click.bees[i].y - click.y) * (click.bees[i].y - click.y)

\* k eighths of a turn, in thousandths of a radian
CompassAngle(k) == IF k < 0 THEN 0 - ((3142 * (0 - k)) \div 4) ELSE (3142 * k) \div 4

\* the heading theta is within 0.15 rad of a compass direction that points
\* along the displacement <<dx, dy>> (of any, when there is no displacement)
HeadsAlong(theta, dx, dy) ==
  \E k \in (0 - 4)..4 :
     /\ Abs(theta - CompassAngle(k)) <= 150
     /\ HeadingVector[(k % 8) + 1][1] * dy = HeadingVector[(k % 8) + 1][2] * dx
     /\ HeadingVector[(k % 8) + 1][1] * dx + HeadingVector[(k % 8) + 1][2] * dy >= 0

\* the last click found a bee idle under a dwell lock just on the scare radius
ClickReachesLockedBee ==
  /\ click.stage = "done"
  /\ \E i \in 1..Len(bees) :
        /\ ClickDistanceSquared(i) = scareRadius * scareRadius
        /\ click.bees[i].animation = "idle"
        /\ click.bees[i].minStateFrames > 0

\* C21: after a click every bee that was within the scare radius has a target,
\* heads away from the click within the jitter, and is in takeoff or fly
ScaredBeesFlee ==
  click.stage = "done" =>
    \A i \in 1..Len(bees) :
       ClickDistanceSquared(i) <= scareRadius * scareRadius =>
         /\ bees[i].hasTarget
         /\ HeadsAlong(bees[i].theta, click.bees[i].x - click.x, click.bees[i].y - click.y)
         /\ bees[i].animation \in {"takeoff", "fly"}

\* the inactive cells of the grid inside the box of the grown region, one
\* cell wider on every side
HoleBox ==
  {c \in Cells :
     /\ ~holeRun.grid[c].active
     /\ \E a \in holeRun.cluster : c[1] >= a[1] - 1
     /\ \E a \in holeRun.cluster : c[1] <= a[1] + 1
     /\ \E a \in holeRun.cluster : c[2] >= a[2] - 1
     /\ \E a \in holeRun.cluster : c[2] <= a[2] + 1}

\* the cells of the box on its perimeter: no cell of the region reaches as far
\* in q or in r, one way or the other
HolePerimeter ==
  {c \in HoleBox :
     \/ \A a \in holeRun.cluster : c[1] < a[1]
     \/ \A a \in holeRun.cluster : c[1] > a[1]
     \/ \A a \in holeRun.cluster : c[2] < a[2]
     \/ \A a \in holeRun.cluster : c[2] > a[2]}

\* the run filled a hole and left inactive a cell off the perimeter that a
\* gap links to it
HoleFilledBesideGap ==
  /\ holeRun.stage = "filled"
  /\ \E c \in HoleBox : holeRun.after.grid[c].active
  /\ \E c \in HoleBox \ HolePerimeter : ~holeRun.after.grid[c].active

\* C24: hole-filling activates an inactive cell of the box and adds it to the
\* cluster exactly when no chain of neighbouring inactive cells of the box
\* links it to an inactive cell of the perimeter
HolesFilledExactly ==
  holeRun.stage = "filled" =>
    \A c \in HoleBox :
       /\ holeRun.after.grid[c].active <=> c \notin LinkedWithin(HolePerimeter, HoleBox)
       /\ c \in holeRun.after.cluster <=> c \notin LinkedWithin(HolePerimeter, HoleBox)

\* C25: a resize leaves the bees as they were: the same bees, with position,
\* height, heading, state, counters and target unchanged
ResizeKeepsBees ==
  [][canvas'.resizes # canvas.resizes => bees' = bees]_vars

\* a count was made for a canvas without area, for a negative ratio on a large
\* canvas, or for a large canvas and small bees
CountAtTheClamps ==
  /\ countRun.stage = "counted"
  /\ \/ countRun.width * countRun.height = 0
     \/ countRun.ratioPct < 0 /\ countRun.width * countRun.height > 500

\* C26: the number of bees created is at least 1 and at most 500
BeeCountWithinClamp ==
  countRun.stage = "counted" => countRun.numberOfBees \in 1..500

\* a callback after the first came more than 100 ms after the one before it,
\* found a remainder in the timer and ran two ticks or more
LateCallbackWithCarry ==
  /\ loop.stage = "called"
  /\ loop.callbacks > 1
  /\ loop.d > 100
  /\ loop.carry > 0
  /\ loop.ticks >= 2

\* C27: a frame callback after the first, d ms after the one before it, runs
\* floor((carry + min(d, 100)) / step) ticks with step = 1000 / fps, the frame
\* counter advances by 1 per tick, and the remainder it leaves is in [0, step)
CallbackRunsWholeSteps ==
  (loop.stage = "called" /\ loop.callbacks > 1) =>
    /\ loop.ticks = (loop.carry + Min(loop.d, 100) * loop.fps) \div 1000
    /\ frameCounter = loop.before + loop.ticks
    /\ loop.timer >= 0
    /\ loop.timer < 1000

\* C29: after a dwell lock or a proximity cooldown of N frames is set on a
\* bee, the proximity loop does not change the state of the bee during the
\* following N ticks
LocksHoldTheirFrames ==
  dwell.stage = "tracking" /\ dwell.changed =>
    /\ dwell.lockFound.ticks > dwell.lockFound.n
    /\ dwell.cooldownFound.ticks > dwell.cooldownFound.n

\* C30: with the default props the animation starts immediately after the
\* mount: until the page calls the component or closes the canvas, the canvas
\* is active and the frame loop is running
StartsImmediatelyAfterMount ==
  (mount.stage = "mounted" /\ ~mount.touched) =>
    mount.isCanvasActiveInDom /\ mount.isRunning

\* C31: a symbol with a fixed character is never randomised: after every draw
\* its text is its fixed character, whatever the current cell of the column
\* and also when its row is among the random-change cells
FixedSymbolsKeepTheirCharacter ==
  (rain.stage = "column" /\ rain.draws > 0) =>
    \A i \in RainIndex :
       rain.symbols[i].fixedChar # <<>> => rain.symbols[i].text = rain.symbols[i].fixedChar[1]

\* the scan over all the other bees: bee i has a bee of its own layer within
\* the threshold of that layer and inside its cone
facesNeighbourAmongAll(bs, i) ==
  \E j \in 1..Len(bs) :
     /\ j # i
     /\ layerOf(bs[j].z) = layerOf(bs[i].z)
     /\ withinThreshold(bs[i], bs[j], layerOf(bs[i].z))
     /\ isFacingTarget(bs[i], bs[j])

\* the pass handled a bee on the first layer that faced a bee of another bin,
\* which did not face it
AirbornePairAcrossBins ==
  /\ prox.stage = "resolved"
  /\ binOf(prox.before[1]) # binOf(prox.before[2])
  /\ layerOf(prox.before[1].z) = 1
  /\ facesNeighbourAmongAll(prox.before, 1)
  /\ ~facesNeighbourAmongAll(prox.before, 2)
  /\ ~proximitySkipped(prox.before[1])
  /\ prox.after[1] # prox.before[1]

\* C32: the pass over the bins resolves exactly the bees that a scan over all
\* the other bees of the same layer would resolve
BinnedScanFindsEveryPair ==
  prox.stage = "resolved" =>
    prox.after = [i \in 1..Len(prox.before) |->
                    resolveProximity(prox.before[i], facesNeighbourAmongAll(prox.before, i),
                                     prox.overs[i], prox.rt, prox.rt)]

\* C33: a bee in the air over an active cluster that the proximity loop
\* handles is not put into hover: it is in land after the pass, or still in
\* takeoff if it was taking off
HandledOverClusterLands ==
  prox.stage = "resolved" =>
    \A i \in 1..Len(prox.before) :
       (/\ layerOf(prox.before[i].z) > 0
        /\ prox.overs[i]
        /\ ~proximitySkipped(prox.before[i])
        /\ facesNeighbourAmongAll(prox.before, i))
         => \/ prox.after[i].animation = "land"
            \/ prox.before[i].animation = "takeoff" /\ prox.after[i].animation = "takeoff"

\* the cluster built has an outline, honey at edge depth 1 or 2 and pollen at
\* edge depth 3, away from the seed
TypedWithPollenAndHoney ==
  /\ typeRun.stage = "typed"
  /\ \E c \in typeRun.cluster : typeRun.grid[c].border > 0
  /\ \E c \in typeRun.cluster \ {typeRun.centreCell} :
        typeRun.grid[c].type = "pollen" /\ typeRun.grid[c].edge = 3
  /\ \E c \in typeRun.cluster \ {typeRun.centreCell} :
        typeRun.grid[c].type = "honey capped" /\ typeRun.grid[c].edge \in {1, 2}

\* C34: right after a cluster is built, a border cell is empty, pollen is only
\* at edge depth 3, honey only at edge depth 1 or 2, brood only at edge depth 0
\* or 4 or on the seed, and the seed is brood capped
TypesFollowEdgeDepth ==
  typeRun.stage = "typed" =>
    /\ typeRun.grid[typeRun.centreCell].type = "brood cell capped"
    /\ \A c \in typeRun.cluster \ {typeRun.centreCell} :
         /\ typeRun.grid[c].border > 0 => typeRun.grid[c].type = "empty"
         /\ typeRun.grid[c].type = "pollen" => typeRun.grid[c].edge = 3
         /\ typeRun.grid[c].type \in {"honey filled", "honey capped"}
              => typeRun.grid[c].edge \in {1, 2}
         /\ typeRun.grid[c].type \in {"brood hatching", "brood cell", "brood cell capped"}
              => typeRun.grid[c].edge \in {0, 4}

\* the bee is at the ceiling, which a takeoff from a hover on the second
\* layer reaches
BeeAtCeiling ==
  /\ bee.z = LayerTwoZ
  /\ bee.animation \in {"takeoff", "fly"}

\* C35: the height of a bee is between 0 and 2 in every state, after ticks,
\* clicks and the state changes of the passes
HeightWithinLayers ==
  bee.z >= 0 /\ bee.z <= LayerTwoZ

\* C36: between ticks (after a whole tick and after every click) the number of
\* active clusters is at most the cap that #getClusterCap gives at that moment
ActiveWithinCap ==
  pc = "idle" =>
    getActiveClusterCount(honeyCombClusters) <= getClusterCap(honeyCombClusters, frameCounter)

-----------------------------------------------------------------------------
(* The cluster pool over two lifetimes of a cluster *)

MaxPoolFrame == 104       \* frames observed: a cluster lives, cools and lives again
PoolDraws == {0, 95}      \* values of Math.random() of a tick, in hundredths

\* Hive.draw, first part, with the draws of PoolDraws
poolSpawn ==
  /\ pc = "idle"
  /\ frameCounter < MaxPoolFrame
  /\ \E u \in PoolDraws :
       \E r \in {spawnOneClusterIfAllowed(honeyCombClusters, cells, frameCounter + 1,
                                          lastClusterSpawnFrame, u)} :
          /\ honeyCombClusters' = r.pool
          /\ cells' = r.grid
          /\ lastClusterSpawnFrame' = r.last
          /\ RecordActivation(honeyCombClusters, r.pool, r.grid)
  /\ frameCounter' = frameCounter + 1
  /\ capComputed' = getClusterCap(honeyCombClusters, frameCounter + 1)
  /\ pc' = "update"

PoolSpawn == poolSpawn /\ UNCHANGED <<runVars, beeVars, swarmVars, pageVars>>

NextPool == PoolSpawn \/ DrawUpdate

SpecPool == Init /\ [][NextPool]_vars

\* the conditions of the auto-spawn step of a tick with the random draw u:
\* room under the cap, the stagger interval has elapsed, the sampled cell is
\* inactive and some inactive pool cluster has finished cooling down
spawnEligible(pool, grid, frame, last, u) ==
  /\ getActiveClusterCount(pool) < getClusterCap(pool, frame)
  /\ ~spawnedWithin(frame, last, fps * 5)
  /\ ~grid[getRandom(u)].active
  /\ \E i \in 1..Len(pool) : ~pool[i].active /\ pool[i].cooldownCounter <= 0

\* C37: on a tick where the active count is below the cap, the stagger
\* interval has elapsed, the sampled cell is inactive and an inactive pool
\* cluster has cooldown <= 0, the auto-spawn step activates a cluster,
\* whichever other inactive cluster is still cooling down
EligibleClusterIsSpawned ==
  (pc = "idle" /\ frameCounter < MaxPoolFrame) =>
    \A u \in PoolDraws :
      spawnEligible(honeyCombClusters, cells, frameCounter + 1, lastClusterSpawnFrame, u) =>
        getActiveClusterCount(
          spawnOneClusterIfAllowed(honeyCombClusters, cells, frameCounter + 1,
                                   lastClusterSpawnFrame, u).pool)
          > getActiveClusterCount(honeyCombClusters)

-----------------------------------------------------------------------------
(* The grids of Hive.resize.  Every resize makes a new HoneycombMap with new *)
(* Honeycomb objects, so a cell is named here by the grid it belongs to and  *)
(* its key: <<generation, <<q, r>>>>.  The window is resized to sizes that   *)
(* give the same keys (Cells), between ticks.                                *)

MaxGenerations == 2       \* grids made: the constructor's and those of the resizes
MaxGridFrame == 62        \* frames observed: a cluster lives, cools down and is reused
GridDraws == {0, 95}      \* values of Math.random() of a tick, in hundredths
ResizeFrames == {3, 50}   \* the frames after which the window may be resized

\* the cells a pool cluster works on: the cells of the grid its constructor was
\* given (HoneycombCluster.grid), except that its centre is the object it was
\* handed by resetCluster, a cell of the grid `cg`
clusterView(grids, g, cg, centre) ==
  [c \in Cells |-> IF c = centre THEN grids[cg][c] ELSE grids[g][c]]

\* the cells of `view` written to the objects they are
clusterWrite(grids, g, cg, centre, view) ==
  LET own == [grids EXCEPT ![g] = [c \in Cells |-> IF c = centre THEN grids[g][c]
                                                     ELSE view[c]]]
  IN [own EXCEPT ![cg] = [own[cg] EXCEPT ![centre] = view[centre]]]

\* n copies of x appended to s
RECURSIVE padTo(_, _, _)
padTo(s, n, x) == IF Len(s) >= n THEN s ELSE padTo(Append(s, x), n, x)

\* Hive.#spawnOneClusterIfAllowed: the pool is filled with clusters on
\* honeyCombGrid, the sampled cell is a cell of honeyCombGrid, and resetCluster
\* grows the reused cluster on the grid of its constructor
gridSpawn(run, u) ==
  LET cap == getClusterCap(run.pool, run.frame)
  IN IF getActiveClusterCount(run.pool) >= cap THEN run
     ELSE IF spawnedWithin(run.frame, run.last, fps * 5) THEN run
     ELSE LET pool2 == ensureClusterPool(run.pool, cap, u)
              gridOf2 == padTo(run.gridOf, Len(pool2), run.generation)
              centreOf2 == padTo(run.centreOf, Len(pool2), run.generation)
              inactive == getInactiveCluster(pool2)
              cell == getRandom(u)
              filled == [run EXCEPT !.pool = pool2, !.gridOf = gridOf2, !.centreOf = centreOf2]
          IN IF /\ inactive # 0
                /\ pool2[inactive].cooldownCounter <= 0
                /\ ~run.grids[run.generation][cell].active
             THEN LET r == resetCluster(pool2[inactive], cell, FALSE,
                                        clusterView(run.grids, gridOf2[inactive],
                                                    run.generation, cell), u)
                  IN [filled EXCEPT
                        !.pool = [pool2 EXCEPT ![inactive] = r.cl],
                        !.centreOf = [centreOf2 EXCEPT ![inactive] = run.generation],
                        !.grids = clusterWrite(run.grids, gridOf2[inactive],
                                               run.generation, cell, r.grid),
                        !.last = <<run.frame>>]
             ELSE filled

\* the cluster forEach of Hive.draw, pool entries i..Len(pool) in array order,
\* every cluster on its own cells
RECURSIVE gridUpdate(_, _)
gridUpdate(run, i) ==
  IF i > Len(run.pool) THEN run
  ELSE IF run.pool[i].active
  THEN LET r == updateCellLifecycle(run.pool[i],
                                    clusterView(run.grids, run.gridOf[i], run.centreOf[i],
                                                run.pool[i].centreCell))
       IN gridUpdate([run EXCEPT !.pool = [run.pool EXCEPT ![i] = r.cl],
                                 !.grids = clusterWrite(run.grids, run.gridOf[i],
                                                        run.centreOf[i],
                                                        run.pool[i].centreCell, r.grid)],
                     i + 1)
  ELSE gridUpdate([run EXCEPT !.pool = [run.pool EXCEPT ![i] = tickCooldown(run.pool[i])]],
                  i + 1)

\* the cell set of pool cluster i, every cell with its grid
clusterCells(run, i) ==
  {<<IF c = run.pool[i].centreCell THEN run.centreOf[i] ELSE run.gridOf[i], c>> :
      c \in run.pool[i].cluster}

InitGrids ==
  /\ InitHive
  /\ timing = NoTiming
  /\ capRun = NoCapRun
  /\ NoBees
  /\ NoSwarm
  /\ lookup = NoLookup
  /\ bees = <<>>
  /\ click = NoClick
  /\ holeRun = NoHoles
  /\ canvas = NoCanvas
  /\ countRun = NoCount
  /\ loop = NoLoop
  /\ dwell = NoDwell
  /\ mount = NoMount
  /\ rain = NoRain
  /\ typeRun = NoTypes
  /\ gridRun = [stage |-> "run", generation |-> 1, grids |-> <<[c \in Cells |-> Honeycomb]>>,
                pool |-> <<>>, gridOf |-> <<>>, centreOf |-> <<>>,
                frame |-> 0, last |-> <<>>]

GridUnchanged ==
  /\ UNCHANGED <<hiveVars, runVars, beeVars, swarmVars>>
  /\ UNCHANGED <<lookup, bees, click, holeRun, canvas, countRun, loop, dwell, mount, rain,
                 typeRun>>

\* Hive.draw, the cluster side: the frame counter, the auto-spawn step and the
\* update of every pool cluster
GridTick ==
  /\ gridRun.stage = "run"
  /\ gridRun.frame < MaxGridFrame
  /\ \E u \in GridDraws :
       gridRun' = gridUpdate(gridSpawn([gridRun EXCEPT !.frame = gridRun.frame + 1], u), 1)
  /\ GridUnchanged

\* Hive.resize(width, height), the cluster side: honeyCombGrid is a new map
\* of new cells; honeyCombClusters is left as it is
GridResize ==
  /\ gridRun.stage = "run"
  /\ gridRun.generation < MaxGenerations
  /\ gridRun.frame \in ResizeFrames
  /\ gridRun' = [gridRun EXCEPT !.generation = gridRun.generation + 1,
                                !.grids = Append(gridRun.grids, [c \in Cells |-> Honeycomb])]
  /\ GridUnchanged

NextGrids == GridTick \/ GridResize

SpecGrids == InitGrids /\ [][NextGrids]_vars

\* C38: once the window has been resized, every cell of the cell set of every
\* active cluster, those that a reused pool cluster grew into included, is a
\* cell of the current grid of the Hive
ClusterCellsOnCurrentGrid ==
  (gridRun.stage = "run" /\ gridRun.generation > 1) =>
    \A i \in 1..Len(gridRun.pool) :
      gridRun.pool[i].active =>
        \A cell \in clusterCells(gridRun, i) : cell[1] = gridRun.generation

\* C39: a footprint is appended only for a bee whose animation is a ground
\* mode (idle, blocked, walk, turn, flutter), and never for a bee in takeoff,
\* fly, land or hover
FootprintsOnlyInGroundModes ==
  (beePc = "passes" /\ printed) =>
    bee.animation \in {"idle", "blocked", "walk", "turn", "flutter"}

====
